---- MODULE Spec2Model ----
(***************************************************************************)
(* Model of the concurrent geocode-resolution pipeline of latlg-address:   *)
(* Service.Process, the batch coordinator, the worker pool with its job    *)
(* and result channels, the coordinate cache and the retrying geocode      *)
(* client.  Text (cell contents, messages, address parts) is a sequence of *)
(* one-character strings so that trimming, splitting, searching and        *)
(* joining are computed the way the Go code computes them.                 *)
(***************************************************************************)
EXTENDS Integers, Sequences, FiniteSets, Bags, TLC

(***************************************************************************)
(* Bounds of the model.  The program runs 10 workers, batches of 1000 rows,*)
(* switches to batches above 100000 rows and, in a batch, prints a skipped *)
(* row for every 100th row number; the model keeps the same code with      *)
(* small stand-ins for the four numbers.                                   *)
(***************************************************************************)
MaxRows == 3

LargeThreshold == 2

batchSize == 2

numWorkers == 2

\* processBatch prints a Skipped row when its row number is a multiple of this
reportEvery == 2

(***************************************************************************)
(* Program constants (durations in milliseconds).                          *)
(***************************************************************************)
maxRetriesOneMore == 3 + 1

maxRetries == 3

baseDelay == 2000

requestDelay == 1500

RateLimitUnit == 10000

BatchPause == 500

(***************************************************************************)
(* strings: ToLower, TrimSpace, Contains, Split, Join                      *)
(***************************************************************************)
Comma == ","

Space == " "

UpperToLower ==
  [c \in {"A","B","C","D","E","F","G","H","I","J","K","L","M","N","O","P","Q",
          "R","S","T","U","V","W","X","Y","Z"} |->
     CASE c = "A" -> "a" [] c = "B" -> "b" [] c = "C" -> "c" [] c = "D" -> "d"
       [] c = "E" -> "e" [] c = "F" -> "f" [] c = "G" -> "g" [] c = "H" -> "h"
       [] c = "I" -> "i" [] c = "J" -> "j" [] c = "K" -> "k" [] c = "L" -> "l"
       [] c = "M" -> "m" [] c = "N" -> "n" [] c = "O" -> "o" [] c = "P" -> "p"
       [] c = "Q" -> "q" [] c = "R" -> "r" [] c = "S" -> "s" [] c = "T" -> "t"
       [] c = "U" -> "u" [] c = "V" -> "v" [] c = "W" -> "w" [] c = "X" -> "x"
       [] c = "Y" -> "y" [] c = "Z" -> "z"]

ToLower(s) ==
  [i \in 1..Len(s) |-> IF s[i] \in DOMAIN UpperToLower THEN UpperToLower[s[i]] ELSE s[i]]

RECURSIVE TrimLeft(_)
TrimLeft(s) ==
  IF s # <<>> /\ Head(s) = Space THEN TrimLeft(Tail(s)) ELSE s

RECURSIVE TrimRight(_)
TrimRight(s) ==
  IF s # <<>> /\ s[Len(s)] = Space THEN TrimRight(SubSeq(s, 1, Len(s) - 1)) ELSE s

TrimSpace(s) == TrimRight(TrimLeft(s))

Contains(s, sub) ==
  \E i \in 1..(Len(s) - Len(sub) + 1) : SubSeq(s, i, i + Len(sub) - 1) = sub

\* strings.Split(s, ","): n commas give n+1 pieces, the empty text one empty piece
RECURSIVE Split(_)
Split(s) ==
  IF \A i \in 1..Len(s) : s[i] # Comma
    THEN <<s>>
    ELSE LET i == CHOOSE k \in 1..Len(s) : s[k] = Comma /\ \A m \in 1..(k - 1) : s[m] # Comma
         IN  <<SubSeq(s, 1, i - 1)>> \o Split(SubSeq(s, i + 1, Len(s)))

CommaSpace == <<",", " ">>

RECURSIVE SumSeq(_)
SumSeq(q) == IF q = <<>> THEN 0 ELSE Head(q) + SumSeq(Tail(q))

\* strings.Join(parts, ", ")
RECURSIVE Join(_)
Join(parts) ==
  IF parts = <<>> THEN <<>>
  ELSE IF Len(parts) = 1 THEN parts[1]
  ELSE parts[1] \o CommaSpace \o Join(Tail(parts))

(***************************************************************************)
(* strconv.ParseFloat on decimal text: optional sign, digits with at most  *)
(* one point, at least one digit.  The value is kept as an integer number  *)
(* of 1e-7 units, so that six-decimal formatting has a digit to round.     *)
(***************************************************************************)
Digits == {"0","1","2","3","4","5","6","7","8","9"}

DigitVal(c) ==
  CASE c = "0" -> 0 [] c = "1" -> 1 [] c = "2" -> 2 [] c = "3" -> 3 [] c = "4" -> 4
    [] c = "5" -> 5 [] c = "6" -> 6 [] c = "7" -> 7 [] c = "8" -> 8 [] c = "9" -> 9

\* decimal places the model keeps of a parsed number, one more than the key's six
FracDigits == 7

RECURSIVE Pow10(_)
Pow10(n) == IF n = 0 THEN 1 ELSE 10 * Pow10(n - 1)

RECURSIVE DigitsValue(_)
DigitsValue(s) ==
  IF s = <<>> THEN 0 ELSE 10 * DigitsValue(SubSeq(s, 1, Len(s) - 1)) + DigitVal(s[Len(s)])

ParseFloat(s) ==
  LET neg    == s # <<>> /\ Head(s) = "-"
      signed == s # <<>> /\ Head(s) \in {"-", "+"}
      body   == IF signed THEN Tail(s) ELSE s
      dots   == {i \in 1..Len(body) : body[i] = "."}
      dot    == IF dots = {} THEN Len(body) + 1 ELSE CHOOSE i \in dots : TRUE
      ip     == SubSeq(body, 1, dot - 1)
      fp     == SubSeq(body, dot + 1, Len(body))
      fpCut  == SubSeq(fp, 1, IF Len(fp) < FracDigits THEN Len(fp) ELSE FracDigits)
      wellFormed ==
        /\ Cardinality(dots) <= 1
        /\ Len(ip) + Len(fp) >= 1
        /\ \A i \in 1..Len(ip) : ip[i] \in Digits
        /\ \A i \in 1..Len(fp) : fp[i] \in Digits
      mag    == DigitsValue(ip) * Pow10(FracDigits)
                  + DigitsValue(fpCut) * Pow10(FracDigits - Len(fpCut))
  IN  IF wellFormed THEN [ok |-> TRUE, v |-> IF neg THEN 0 - mag ELSE mag]
      ELSE [ok |-> FALSE, v |-> 0]

(***************************************************************************)
(* Service.parseCoordinates.  err = <<>> is Go's nil error.                *)
(***************************************************************************)
MsgInvalidFormat == <<"i", "n", "v", "a", "l", "i", "d", " ", "f", "o", "r", "m", "a", "t", ",", " ", "e", "x", "p", "e", "c", "t", "e", "d", " ", "'", "l", "a", "t", ",", "l", "n", "g", "'">>

MsgInvalidLatitude == <<"i", "n", "v", "a", "l", "i", "d", " ", "l", "a", "t", "i", "t", "u", "d", "e">>

MsgInvalidLongitude == <<"i", "n", "v", "a", "l", "i", "d", " ", "l", "o", "n", "g", "i", "t", "u", "d", "e">>

NoCoordinates == [Lat |-> 0, Lng |-> 0]

parseCoordinatesNoLngCheck(coordStr) ==
  LET parts == Split(coordStr)
  IN  IF Len(parts) # 2
        THEN [err |-> MsgInvalidFormat, coords |-> NoCoordinates]
        ELSE LET lat == ParseFloat(TrimSpace(parts[1]))
                 lng == ParseFloat(TrimSpace(parts[2]))
             IN  IF ~lat.ok THEN [err |-> MsgInvalidLatitude, coords |-> NoCoordinates]
                 ELSE [err |-> <<>>, coords |-> [Lat |-> lat.v, Lng |-> lng.v]]

parseCoordinates(coordStr) ==
  LET parts == Split(coordStr)
  IN  IF Len(parts) # 2
        THEN [err |-> MsgInvalidFormat, coords |-> NoCoordinates]
        ELSE LET lat == ParseFloat(TrimSpace(parts[1]))
                 lng == ParseFloat(TrimSpace(parts[2]))
             IN  IF ~lat.ok THEN [err |-> MsgInvalidLatitude, coords |-> NoCoordinates]
                 ELSE IF ~lng.ok THEN [err |-> MsgInvalidLongitude, coords |-> NoCoordinates]
                 ELSE [err |-> <<>>, coords |-> [Lat |-> lat.v, Lng |-> lng.v]]

(***************************************************************************)
(* coordinateCache key: fmt.Sprintf of both components with six decimals,  *)
(* i.e. both components rounded to 1e-6.                                   *)
(***************************************************************************)
Round6(v) ==
  LET unit == Pow10(FracDigits - 6)
      half == unit \div 2
  IN  IF v >= 0 THEN (v + half) \div unit ELSE 0 - ((half - v) \div unit)

cacheKeyUnrounded(lat, lng) == <<lat, lng>>

cacheKeyLatTwice(lat, lng) == <<Round6(lat), Round6(lat)>>

cacheKey(lat, lng) == <<Round6(lat), Round6(lng)>>

(***************************************************************************)
(* GeocodeResponse and the two address rules of the geocode client.        *)
(***************************************************************************)
NoText == <<>>

EmptyAddress ==
  [HouseNumber |-> NoText, Road |-> NoText, Suburb |-> NoText, City |-> NoText,
   County |-> NoText, State |-> NoText, StateDistrict |-> NoText, Postcode |-> NoText,
   Country |-> NoText, Subdistrict |-> NoText, District |-> NoText, Province |-> NoText]

formatFullAddressSuburbFirst(resp) ==
  LET addr == resp.Address
      road == IF addr.HouseNumber # NoText /\ addr.Road # NoText
                THEN <<addr.HouseNumber \o <<Space>> \o addr.Road>>
              ELSE IF addr.Road # NoText THEN <<addr.Road>>
              ELSE IF addr.HouseNumber # NoText THEN <<addr.HouseNumber>>
              ELSE <<>>
      sub  == IF addr.Suburb # NoText THEN <<addr.Suburb>>
              ELSE IF addr.Subdistrict # NoText THEN <<addr.Subdistrict>>
              ELSE <<>>
      dist == IF addr.District # NoText THEN <<addr.District>>
              ELSE IF addr.County # NoText THEN <<addr.County>>
              ELSE IF addr.StateDistrict # NoText THEN <<addr.StateDistrict>>
              ELSE <<>>
      prov == IF addr.Province # NoText THEN <<addr.Province>>
              ELSE IF addr.State # NoText THEN <<addr.State>>
              ELSE IF addr.City # NoText THEN <<addr.City>>
              ELSE <<>>
      post == IF addr.Postcode # NoText THEN <<addr.Postcode>> ELSE <<>>
      ctry == IF addr.Country # NoText THEN <<addr.Country>> ELSE <<>>
      parts == road \o sub \o dist \o prov \o post \o ctry
  IN  IF Len(parts) = 0 THEN resp.DisplayName ELSE Join(parts)

formatFullAddress(resp) ==
  LET addr == resp.Address
      road == IF addr.HouseNumber # NoText /\ addr.Road # NoText
                THEN <<addr.HouseNumber \o <<Space>> \o addr.Road>>
              ELSE IF addr.Road # NoText THEN <<addr.Road>>
              ELSE IF addr.HouseNumber # NoText THEN <<addr.HouseNumber>>
              ELSE <<>>
      sub  == IF addr.Subdistrict # NoText THEN <<addr.Subdistrict>>
              ELSE IF addr.Suburb # NoText THEN <<addr.Suburb>>
              ELSE <<>>
      dist == IF addr.District # NoText THEN <<addr.District>>
              ELSE IF addr.County # NoText THEN <<addr.County>>
              ELSE IF addr.StateDistrict # NoText THEN <<addr.StateDistrict>>
              ELSE <<>>
      prov == IF addr.Province # NoText THEN <<addr.Province>>
              ELSE IF addr.State # NoText THEN <<addr.State>>
              ELSE IF addr.City # NoText THEN <<addr.City>>
              ELSE <<>>
      post == IF addr.Postcode # NoText THEN <<addr.Postcode>> ELSE <<>>
      ctry == IF addr.Country # NoText THEN <<addr.Country>> ELSE <<>>
      parts == road \o sub \o dist \o prov \o post \o ctry
  IN  IF Len(parts) = 0 THEN resp.DisplayName ELSE Join(parts)

extractDistrictFromDisplayName(displayName, resp) ==
  LET parts == Split(displayName)
      n     == Len(parts)
      fits(i) == LET part == TrimSpace(parts[i])
                 IN  /\ part # NoText
                     /\ part # resp.Address.Province
                     /\ part # resp.Address.Country
                     /\ part # resp.Address.City
                     /\ part # resp.Address.State
      \* Go index i runs from len(parts)-3 down to 0, i.e. positions n-2 .. 1
      cand  == {i \in 1..(n - 2) : fits(i)}
  IN  IF n >= 3 /\ cand # {}
        THEN TrimSpace(parts[CHOOSE i \in cand : \A j \in cand : j <= i])
        ELSE NoText

extractDistrictAndProvince(resp) ==
  LET addr == resp.Address
      district ==
        IF addr.District # NoText THEN addr.District
        ELSE IF addr.County # NoText THEN addr.County
        ELSE IF addr.StateDistrict # NoText THEN addr.StateDistrict
        ELSE IF addr.Subdistrict # NoText THEN addr.Subdistrict
        ELSE IF addr.Suburb # NoText THEN addr.Suburb
        ELSE IF addr.City # NoText /\ addr.Province = NoText THEN addr.City
        ELSE extractDistrictFromDisplayName(resp.DisplayName, resp)
      province ==
        IF addr.Province # NoText THEN addr.Province
        ELSE IF addr.State # NoText THEN addr.State
        ELSE IF addr.City # NoText THEN addr.City
        ELSE IF addr.Country # NoText THEN addr.Country
        ELSE NoText
  IN  [district |-> district, province |-> province]

(***************************************************************************)
(* The upstream service.  One answer to one outbound request is either a   *)
(* transport failure or a status with a body that decodes or not.          *)
(***************************************************************************)
RespStungTreng ==
  [DisplayName |-> <<"S", "t", "u", "n", "g", " ", "T", "r", "e", "n", "g", ",", " ", "C", "a", "m", "b", "o", "d", "i", "a">>,
   Address |-> [EmptyAddress EXCEPT !.District = <<"S", "t", "u", "n", "g", " ", "T", "r", "e", "n", "g">>,
                                    !.Province = <<"S", "t", "u", "n", "g", " ", "T", "r", "e", "n", "g">>,
                                    !.Country = <<"C", "a", "m", "b", "o", "d", "i", "a">>]]

RespBangkok ==
  [DisplayName |-> <<"W", "a", "t", " ", "A", "r", "u", "n", ",", " ", "B", "a", "n", "g", "k", "o", "k", " ", "N", "o", "i", ",", " ", "B", "a", "n", "g", "k", "o", "k", ",", " ", "T", "h", "a", "i", "l", "a", "n", "d">>,
   Address |-> [EmptyAddress EXCEPT !.City = <<"B", "a", "n", "g", "k", "o", "k">>,
                                    !.Province = <<"B", "a", "n", "g", "k", "o", "k">>]]

RespNoName == [DisplayName |-> NoText, Address |-> EmptyAddress]

Responses == {RespStungTreng, RespBangkok}

NetFail == [net |-> TRUE, status |-> 0, decodes |-> FALSE, body |-> RespNoName]

Http(status) == [net |-> FALSE, status |-> status, decodes |-> FALSE, body |-> RespNoName]

Undecodable == [net |-> FALSE, status |-> 200, decodes |-> FALSE, body |-> RespNoName]

Ok(resp) == [net |-> FALSE, status |-> 200, decodes |-> TRUE, body |-> resp]

Outcomes ==
  {NetFail, Http(429), Http(500), Http(404), Undecodable, Ok(RespNoName)}
    \cup {Ok(r) : r \in Responses}

(***************************************************************************)
(* Service.reverseGeocode.  GeoStep is one pass through the body of the    *)
(* attempt loop, given the upstream's answer to the request of that pass;  *)
(* a call state with attempt = maxRetries is the fall-through after the    *)
(* loop.  Error texts that come from net/http and encoding/json are kept   *)
(* as fixed texts.                                                         *)
(***************************************************************************)
ErrNetwork == <<"n", "e", "t", "w", "o", "r", "k", " ", "e", "r", "r", "o", "r">>

ErrDecode == <<"d", "e", "c", "o", "d", "e", " ", "e", "r", "r", "o", "r">>

ErrRateLimit == <<"A", "P", "I", " ", "r", "a", "t", "e", " ", "l", "i", "m", "i", "t", " ", "e", "x", "c", "e", "e", "d", "e", "d", " ", "a", "f", "t", "e", "r", " ", "3", " ", "r", "e", "t", "r", "i", "e", "s">>

ErrNoAddress == <<"n", "o", " ", "a", "d", "d", "r", "e", "s", "s", " ", "f", "o", "u", "n", "d", " ", "f", "o", "r", " ", "c", "o", "o", "r", "d", "i", "n", "a", "t", "e", "s">>

ErrExhausted == <<"f", "a", "i", "l", "e", "d", " ", "a", "f", "t", "e", "r", " ", "3", " ", "r", "e", "t", "r", "i", "e", "s">>

StatusText(status) ==
  CASE status = 404 -> <<"4", "0", "4">> [] status = 500 -> <<"5", "0", "0">> [] OTHER -> <<"s", "t", "a", "t", "u", "s">>

ErrStatus(status) == <<"A", "P", "I", " ", "r", "e", "t", "u", "r", "n", "e", "d", " ", "s", "t", "a", "t", "u", "s", " ">> \o StatusText(status)

NoLocation == [address |-> NoText, district |-> NoText, province |-> NoText]

GeoCall ==
  [attempt |-> 0, requests |-> 0, sleeps |-> <<>>, returned |-> FALSE,
   err |-> NoText, loc |-> NoLocation]

GeoReturnErr(st, e) == [st EXCEPT !.returned = TRUE, !.err = e, !.loc = NoLocation]

mayRetryTooEarly(attempt) == attempt < maxRetries - 2

mayRetryAlways(attempt) == attempt < maxRetries

\* "attempt < maxRetries-1": this was not the last attempt
mayRetry(attempt) == attempt < maxRetries - 1

backoffDelayDoubled(attempt) == baseDelay * (2 ^ attempt)

\* "baseDelay * time.Duration(1<<uint(attempt-1))"
backoffDelay(attempt) == baseDelay * (2 ^ (attempt - 1))

rateLimitWaitFlat(attempt) == RateLimitUnit

\* "time.Duration(attempt+1) * 10 * time.Second"
rateLimitWait(attempt) == (attempt + 1) * RateLimitUnit

retriedStatusAnyError(status) == status >= 400

\* "resp.StatusCode >= 500"
retriedStatus(status) == status >= 500

GeoStep(st, out) ==
  IF st.attempt >= maxRetries
    THEN GeoReturnErr(st, ErrExhausted)
    ELSE
      LET attempt == st.attempt
          backoff == IF attempt > 0
                       THEN Append(st.sleeps, backoffDelay(attempt))
                       ELSE st.sleeps
          sent    == [st EXCEPT !.sleeps = backoff, !.requests = @ + 1]
          again   == [sent EXCEPT !.attempt = attempt + 1]
      IN  IF out.net
            THEN IF mayRetry(attempt) THEN again ELSE GeoReturnErr(sent, ErrNetwork)
          ELSE IF out.status = 429
            THEN IF mayRetry(attempt)
                   THEN [again EXCEPT !.sleeps = Append(@, rateLimitWait(attempt))]
                   ELSE GeoReturnErr(sent, ErrRateLimit)
          ELSE IF out.status # 200
            THEN IF mayRetry(attempt) /\ retriedStatus(out.status)
                   THEN again
                   ELSE GeoReturnErr(sent, ErrStatus(out.status))
          ELSE IF ~out.decodes
            THEN IF mayRetry(attempt) THEN again ELSE GeoReturnErr(sent, ErrDecode)
          ELSE IF out.body.DisplayName = NoText
            THEN GeoReturnErr(sent, ErrNoAddress)
          ELSE LET dp == extractDistrictAndProvince(out.body)
               IN  [sent EXCEPT !.returned = TRUE,
                                !.loc = [address  |-> formatFullAddress(out.body),
                                         district |-> dp.district,
                                         province |-> dp.province]]

\* a whole call: oracle[a] is the upstream's answer to the request of attempt a
RECURSIVE GeoRun(_, _)
GeoRun(st, oracle) ==
  IF st.returned THEN st
  ELSE GeoRun(GeoStep(st, IF st.attempt < maxRetries THEN oracle[st.attempt] ELSE NetFail),
              oracle)

reverseGeocode(oracle) == GeoRun(GeoCall, oracle)

(***************************************************************************)
(* The table.  rows is Repository.rows (position 0 is the header row),     *)
(* sheet is the workbook behind Repository.SetCellValue, addressed by cell *)
(* name: column letter and one-based row number.                           *)
(***************************************************************************)
ColumnLetters == <<"A", "B", "C", "D", "E", "F", "G", "H">>

ColumnNumberToName(n) == ColumnLetters[n]

CellName(col, rowNum) == <<ColumnNumberToName(col + 1), rowNum>>

SetCellValue(sh, cell, value) ==
  [c \in DOMAIN sh \cup {cell} |-> IF c = cell THEN value ELSE sh[c]]

HdrLatLng == <<"L", "a", "t", "L", "n", "g">>

HdrAddress == <<"A", "d", "d", "r", "e", "s", "s">>

HdrDistrict == <<"D", "i", "s", "t", "r", "i", "c", "t">>

HdrProvince == <<"P", "r", "o", "v", "i", "n", "c", "e">>

\* coordinate cells: two spellings of one six-decimal key, another key, a bad
\* longitude, a cell of white space
CoordA == <<"1", ".", "5", ",", "2">>

CoordA2 == <<" ", "1", ".", "5", "0", "0", "0", "0", "0", "1", " ", ",", " ", "2", ".", "0">>

CoordB == <<"1", ".", "5", ",", "4">>

CoordBad == <<"1", ",", "a">>

CoordBlank == <<" ">>

CoordTexts == {CoordA, CoordA2, CoordB}

\* a sheet without rows
EmptyTable == <<>>

TableOf(header, data) == [i \in 0..Len(data) |-> IF i = 0 THEN header ELSE data[i]]

RowsUpTo(n, cells) == UNION {[1..k -> cells] : k \in 0..n}

HeaderReadme == <<HdrLatLng, HdrDistrict, HdrProvince>>

HeaderComplete == <<HdrLatLng, HdrAddress, HdrDistrict, HdrProvince>>

HeaderUnnamed == <<<<"N", "a", "m", "e">>>>

\* data rows of up to n rows in which a row after the third repeats the row
\* three places before it
RepeatingUpTo(n, cells) ==
  {d \in RowsUpTo(n, cells) : \A i \in 4..Len(d) : d[i] = d[i - 3]}

\* the tables a run may start from, under the README's header: every table
\* of up to three cells that are each one of the well-formed ones; the tables
\* of up to MaxRows cells over two keys, and over a well-formed and a
\* malformed cell, that repeat their first three rows; a few tables with
\* blank cells and with rows that GetRows returns short.  And a few under
\* other headers, and the table without rows
Tables ==
  {TableOf(HeaderReadme, d) : d \in RowsUpTo(3, {<<t>> : t \in CoordTexts})}
    \cup {TableOf(HeaderReadme, d) : d \in RepeatingUpTo(MaxRows, {<<CoordA2>>, <<CoordB>>})}
    \cup {TableOf(HeaderReadme, d) : d \in RepeatingUpTo(MaxRows, {<<CoordBad>>, <<CoordA>>})}
    \cup {TableOf(HeaderReadme, d) : d \in RowsUpTo(2, {<<>>, <<CoordBlank>>, <<CoordA>>})}
    \cup {TableOf(HeaderComplete, d) : d \in RowsUpTo(MaxRows, {<<CoordA>>})}
    \cup {TableOf(HeaderUnnamed, d) : d \in RowsUpTo(1, {<<CoordA>>, <<CoordBad>>})}
    \cup {EmptyTable}

RowCount(t) == Cardinality(DOMAIN t)

SheetOf(t) ==
  LET cells == UNION {{CellName(c - 1, i + 1) : c \in 1..Len(t[i])} : i \in DOMAIN t}
  IN  [cell \in cells |->
         LET i == cell[2] - 1
             c == CHOOSE k \in 1..Len(t[i]) : ColumnNumberToName(k) = cell[1]
         IN  t[i][c]]

(***************************************************************************)
(* Service.findColumns, detectCoordinateColumn, addAddressColumns.         *)
(* Column indices are zero-based as in the code, -1 is "not found".        *)
(***************************************************************************)
IsCoordHeader(cellLower) ==
  \/ Contains(cellLower, <<"l", "a", "t", "l", "g">>)
  \/ Contains(cellLower, <<"l", "a", "t">>)
  \/ Contains(cellLower, <<"c", "o", "o", "r", "d", "i", "n", "a", "t", "e">>)
  \/ Contains(cellLower, <<"c", "o", "o", "r", "d">>)

FirstCol(headerRow) ==
  LET hits == {i \in 1..Len(headerRow) : IsCoordHeader(ToLower(TrimSpace(headerRow[i])))}
  IN  IF hits = {} THEN -1 ELSE (CHOOSE i \in hits : \A j \in hits : i <= j) - 1

LastCol(headerRow, word) ==
  LET hits == {i \in 1..Len(headerRow) : Contains(ToLower(TrimSpace(headerRow[i])), word)}
  IN  IF hits = {} THEN -1 ELSE (CHOOSE i \in hits : \A j \in hits : j <= i) - 1

detectCoordinateColumn(row) ==
  LET isPair(cell) ==
        /\ Contains(cell, <<Comma>>)
        /\ Len(Split(cell)) = 2
        /\ ParseFloat(TrimSpace(Split(cell)[1])).ok
        /\ ParseFloat(TrimSpace(Split(cell)[2])).ok
      hits == {i \in 1..Len(row) : isPair(row[i])}
  IN  IF hits = {} THEN -1 ELSE (CHOOSE i \in hits : \A j \in hits : i <= j) - 1

findColumns(t) ==
  LET headerRow == t[0]
      byHeader  == FirstCol(headerRow)
      latLngCol == IF byHeader = -1 /\ RowCount(t) > 1
                     THEN detectCoordinateColumn(t[1]) ELSE byHeader
  IN  IF latLngCol = -1
        THEN [err |-> TRUE, latLngCol |-> -1, addressCol |-> -1,
              districtCol |-> -1, provinceCol |-> -1]
        ELSE [err |-> FALSE, latLngCol |-> latLngCol,
              addressCol  |-> LastCol(headerRow, <<"a", "d", "d", "r", "e", "s", "s">>),
              districtCol |-> LastCol(headerRow, <<"d", "i", "s", "t", "r", "i", "c", "t">>),
              provinceCol |-> LastCol(headerRow, <<"p", "r", "o", "v", "i", "n", "c", "e">>)]

addAddressColumns(sh, currentColCount) ==
  [addressCol  |-> currentColCount,
   districtCol |-> currentColCount + 1,
   provinceCol |-> currentColCount + 2,
   sheet |-> SetCellValue(
               SetCellValue(
                 SetCellValue(sh, CellName(currentColCount, 1), HdrAddress),
                 CellName(currentColCount + 1, 1), HdrDistrict),
               CellName(currentColCount + 2, 1), HdrProvince)]

(***************************************************************************)
(* State.                                                                  *)
(*   rows, sheet        the table and the workbook                         *)
(*   pc, cols           Service.Process: position and located columns      *)
(*   batch, batchStart, batchEnd, startIndex, processed, batchProcessed    *)
(*                      the locals of processRowsInBatches / processBatch  *)
(*   jobs, jobsClosed, sendIdx, sendEnd     the jobs channel and sender    *)
(*   results, resultsClosed, wg             the results channel, WaitGroup *)
(*   wk                 the running worker goroutines, as the bag of their *)
(*                      positions and live locals (the workers are the     *)
(*                      same closure and never use their workerID)         *)
(*   cache              coordinateCache.cache                              *)
(*   outputFile         the saved output workbook                          *)
(*   tempFile           the saved progress workbook of a batched run       *)
(* History kept for the properties (never read by an action's guard):      *)
(*   rowLog[p]          for table position p: results emitted, outbound    *)
(*                      requests made, whether the result was Resolved,    *)
(*                      milliseconds its worker slept, whether the cache   *)
(*                      lookup hit, cache sets made, the result's values,  *)
(*                      rowIndex and message, and the skip reports printed *)
(*                      for it as [row, message]                           *)
(*   appliedAt[i]       results the collector consumed carrying rowIndex i *)
(*   written            <<p, rowNum>>: values of position p written to     *)
(*                      spreadsheet row rowNum                             *)
(*   poolRuns           worker pools started                               *)
(*   checkpoints        the progress saves attempted so far, in order:     *)
(*                      TRUE for a save that succeeded                     *)
(* One reverseGeocode call followed attempt by attempt (SpecGeocode):      *)
(*   geo                the call: attempt counter, requests sent, sleeps,  *)
(*                      and what it returned                               *)
(*   geoAnswers         the upstream's answers to its requests, in order   *)
(* The coordinateCache under concurrent callers (SpecCache):               *)
(*   mu                 coordinateCache.mu: read locks held, write lock    *)
(*   calls              the get or set call each goroutine is inside       *)
(*   puts               <<key, entry>> of every set that took the lock     *)
(***************************************************************************)
VARIABLES rows, sheet, pc, cols, batch, batchStart, batchEnd, startIndex,
          processed, batchProcessed, jobs, jobsClosed, sendIdx, sendEnd,
          results, resultsClosed, wg, wk, cache, outputFile, tempFile,
          rowLog, appliedAt, written, poolRuns, checkpoints, geo, geoAnswers,
          mu, calls, puts

vars == <<rows, sheet, pc, cols, batch, batchStart, batchEnd, startIndex,
          processed, batchProcessed, jobs, jobsClosed, sendIdx, sendEnd,
          results, resultsClosed, wg, wk, cache, outputFile, tempFile,
          rowLog, appliedAt, written, poolRuns, checkpoints, geo, geoAnswers,
          mu, calls, puts>>

fileVars == <<outputFile, tempFile, checkpoints>>

tableVars == <<rows, sheet, cols, fileVars>>

batchVars == <<batch, batchStart, batchEnd, startIndex, processed>>

jobVars == <<jobs, jobsClosed, sendIdx, sendEnd>>

resultVars == <<results, resultsClosed>>

lockVars == <<mu, calls, puts>>

geoVars == <<geo, geoAnswers, lockVars>>

poolVars == <<rows, sheet, pc, cols, batch, batchStart, batchEnd, startIndex,
              processed, batchProcessed, jobs, jobsClosed, sendIdx, sendEnd,
              results, resultsClosed, wg, wk, cache, outputFile, tempFile,
              rowLog, appliedAt, written, poolRuns, checkpoints>>

Positions == 0..MaxRows

NoFile == <<>>

NoCols == [latLngCol |-> -1, addressCol |-> -1, districtCol |-> -1, provinceCol |-> -1]

IdleWorker ==
  [pc |-> "recv", rowIndex |-> 0, src |-> 0, coords |-> NoCoordinates,
   loc |-> NoLocation]

\* the goroutines of the pool
Workers == BagToSet(wk)

\* worker me goes on as next
Goes(me, next) == (wk (-) SetToBag({me})) (+) SetToBag({next})

NoLog ==
  [emitted |-> 0, requests |-> 0, resolved |-> FALSE, slept |-> 0, hit |-> FALSE,
   puts |-> 0, loc |-> NoLocation, rowIndex |-> 0, message |-> NoText, reported |-> {}]

totalRows == RowCount(rows) - 1

\* the row count that would select batches, with the header counted in
batchedCountingHeader == RowCount(rows) > LargeThreshold

\* Service.Process: a large dataset is processed in batches
batched == totalRows > LargeThreshold

InitPool(tables) ==
  /\ rows \in tables
  /\ sheet = SheetOf(rows)
  /\ pc = "main"
  /\ cols = NoCols
  /\ batch = 0
  /\ batchStart = 0
  /\ batchEnd = 0
  /\ startIndex = 0
  /\ processed = 0
  /\ batchProcessed = 0
  /\ jobs = <<>>
  /\ jobsClosed = FALSE
  /\ sendIdx = 0
  /\ sendEnd = 0
  /\ results = <<>>
  /\ resultsClosed = FALSE
  /\ wg = 0
  /\ wk = EmptyBag
  /\ cache = <<>>
  /\ outputFile = NoFile
  /\ tempFile = NoFile
  /\ checkpoints = <<>>
  /\ rowLog = [p \in Positions |-> NoLog]
  /\ appliedAt = [i \in Positions |-> 0]
  /\ written = {}
  /\ poolRuns = 0

\* sync.RWMutex, unlocked
FreeLock == [readers |-> 0, writer |-> FALSE]

Goroutines == 1..numWorkers

NotFound == [found |-> FALSE, loc |-> NoLocation]

NoCall == [pc |-> "idle", coords |-> NoCoordinates, loc |-> NoLocation, ret |-> NotFound]

InitLock ==
  /\ mu = FreeLock
  /\ calls = [g \in Goroutines |-> NoCall]
  /\ puts = {}

Init ==
  /\ InitPool(Tables)
  /\ geo = GeoCall
  /\ geoAnswers = <<>>
  /\ InitLock

(***************************************************************************)
(* main: the input file must exist, NewRepository must open it and read a  *)
(* table that is not empty; otherwise log.Fatalf ends the program.         *)
(***************************************************************************)
Main ==
  /\ pc = "main"
  /\ \E found, opened \in BOOLEAN :
       pc' = IF found /\ opened /\ RowCount(rows) # 0 THEN "start" ELSE "openFailed"
  /\ UNCHANGED <<tableVars, batchVars, batchProcessed, jobVars, resultVars, wg, wk,
                 cache, rowLog, appliedAt, written, poolRuns, geoVars>>

(***************************************************************************)
(* Service.Process up to the choice of mode.                               *)
(***************************************************************************)
\* findColumns on each table a run may have read
FoundColumns == [t \in Tables \ {EmptyTable} |-> findColumns(t)]

ProcessSetupAddsColumnsFirst ==
  /\ pc = "start"
  /\ LET fc == findColumns(rows)
     IN  IF fc.err
           THEN /\ pc' = "setupFailed"
                /\ sheet' = addAddressColumns(sheet, Len(rows[0])).sheet
                /\ UNCHANGED cols
           ELSE LET missing == fc.addressCol = -1 \/ fc.districtCol = -1 \/ fc.provinceCol = -1
                    added   == addAddressColumns(sheet, Len(rows[0]))
                IN  /\ cols' = IF missing
                                 THEN [latLngCol   |-> fc.latLngCol,
                                       addressCol  |-> added.addressCol,
                                       districtCol |-> added.districtCol,
                                       provinceCol |-> added.provinceCol]
                                 ELSE [latLngCol   |-> fc.latLngCol,
                                       addressCol  |-> fc.addressCol,
                                       districtCol |-> fc.districtCol,
                                       provinceCol |-> fc.provinceCol]
                    /\ sheet' = IF missing THEN added.sheet ELSE sheet
                    /\ pc' = IF batched THEN "batched" ELSE "direct"
  /\ UNCHANGED <<rows, fileVars, batchVars, batchProcessed, jobVars,
                 resultVars, wg, wk, cache, rowLog, appliedAt, written, poolRuns, geoVars>>

ProcessSetup ==
  /\ pc = "start"
  /\ LET fc == FoundColumns[rows]
     IN  IF fc.err
           THEN /\ pc' = "setupFailed"
                /\ UNCHANGED <<sheet, cols>>
           ELSE LET missing == fc.addressCol = -1 \/ fc.districtCol = -1 \/ fc.provinceCol = -1
                    added   == addAddressColumns(sheet, Len(rows[0]))
                IN  /\ cols' = IF missing
                                 THEN [latLngCol   |-> fc.latLngCol,
                                       addressCol  |-> added.addressCol,
                                       districtCol |-> added.districtCol,
                                       provinceCol |-> added.provinceCol]
                                 ELSE [latLngCol   |-> fc.latLngCol,
                                       addressCol  |-> fc.addressCol,
                                       districtCol |-> fc.districtCol,
                                       provinceCol |-> fc.provinceCol]
                    /\ sheet' = IF missing THEN added.sheet ELSE sheet
                    /\ pc' = IF batched THEN "batched" ELSE "direct"
  /\ UNCHANGED <<rows, fileVars, batchVars, batchProcessed, jobVars,
                 resultVars, wg, wk, cache, rowLog, appliedAt, written, poolRuns, geoVars>>

(***************************************************************************)
(* Starting a worker pool: make the two channels, start numWorkers         *)
(* workers, the job sender and the goroutine that closes results.          *)
(***************************************************************************)
SpawnPool(first, end) ==
  /\ jobs' = <<>>
  /\ jobsClosed' = FALSE
  /\ sendIdx' = first
  /\ sendEnd' = end
  /\ results' = <<>>
  /\ resultsClosed' = FALSE
  /\ wg' = numWorkers
  /\ wk' = [w \in {IdleWorker} |-> numWorkers]
  /\ batchProcessed' = 0
  /\ poolRuns' = poolRuns + 1

StartDirectFromHeader ==
  /\ pc = "direct"
  /\ SpawnPool(0, RowCount(rows))
  /\ pc' = "collect"
  /\ UNCHANGED <<tableVars, batchVars, cache, rowLog, appliedAt, written, geoVars>>

\* processRows: jobs are the table positions 1 .. len(rows)-1
StartDirect ==
  /\ pc = "direct"
  /\ SpawnPool(1, RowCount(rows))
  /\ pc' = "collect"
  /\ UNCHANGED <<tableVars, batchVars, cache, rowLog, appliedAt, written, geoVars>>

totalBatches == (totalRows + batchSize - 1) \div batchSize

\* processRowsInBatches: one pass of the batch loop up to the call of
\* processBatch(rows[start:end], start-1, ...), or the return after the loop
StartBatch ==
  /\ pc = "batched"
  /\ IF batch < totalBatches
       THEN LET start == batch * batchSize + 1
                end0  == start + batchSize
                end   == IF end0 > RowCount(rows) THEN RowCount(rows) ELSE end0
            IN  /\ batchStart' = start
                /\ batchEnd' = end
                /\ startIndex' = start - 1
                /\ SpawnPool(0, end - start)
                /\ pc' = "collect"
                /\ UNCHANGED <<batch, processed>>
       ELSE /\ pc' = "save"
            /\ UNCHANGED <<batchVars, batchProcessed, jobVars, resultVars, wg, wk, poolRuns>>
  /\ UNCHANGED <<tableVars, cache, rowLog, appliedAt, written, geoVars>>

\* the row a worker reads for a job, and the rowIndex it gives the result
DirectRowPos(job) == job

DirectRowIndex(job) == job

BatchRowPos(batchIdx) == batchStart + batchIdx

BatchRowIndex(batchIdx) == startIndex + batchIdx

(***************************************************************************)
(* The job sender goroutine.                                               *)
(***************************************************************************)
SendJob ==
  /\ pc = "collect"
  /\ ~jobsClosed
  /\ sendIdx < sendEnd
  /\ Len(jobs) < sendEnd
  /\ jobs' = Append(jobs, sendIdx)
  /\ sendIdx' = sendIdx + 1
  /\ UNCHANGED <<tableVars, pc, batchVars, batchProcessed, jobsClosed, sendEnd,
                 resultVars, wg, wk, cache, rowLog, appliedAt, written, poolRuns, geoVars>>

CloseJobs ==
  /\ pc = "collect"
  /\ ~jobsClosed
  /\ sendIdx >= sendEnd
  /\ jobsClosed' = TRUE
  /\ UNCHANGED <<tableVars, pc, batchVars, batchProcessed, jobs, sendIdx, sendEnd,
                 resultVars, wg, wk, cache, rowLog, appliedAt, written, poolRuns, geoVars>>

(***************************************************************************)
(* A worker goroutine (the same loop body in processRows and processBatch, *)
(* which differ in how a job maps to a row and a rowIndex).                *)
(***************************************************************************)
MsgEmptyCoordinates == <<"e", "m", "p", "t", "y", " ", "c", "o", "o", "r", "d", "i", "n", "a", "t", "e", "s">>

MsgGeocodeError == <<"g", "e", "o", "c", "o", "d", "e", " ", "e", "r", "r", "o", "r", ":", " ">>

Max2(a, b) == IF a > b THEN a ELSE b

RECURSIVE PadRow(_, _)
PadRow(row, maxCol) == IF Len(row) <= maxCol THEN PadRow(Append(row, NoText), maxCol) ELSE row

SkippedResult(rowIndex, src, message) ==
  [rowIndex |-> rowIndex, skipped |-> TRUE, message |-> message,
   address |-> NoText, district |-> NoText, province |-> NoText,
   coords |-> NoCoordinates, src |-> src]

ResolvedResult(rowIndex, src, loc, coords) ==
  [rowIndex |-> rowIndex, skipped |-> FALSE, message |-> NoText,
   address |-> loc.address, district |-> loc.district, province |-> loc.province,
   coords |-> coords, src |-> src]

\* the history of a result put on the results channel
LogResult(log, result) ==
  [log EXCEPT ![result.src].emitted = @ + 1,
              ![result.src].resolved = ~result.skipped,
              ![result.src].rowIndex = result.rowIndex,
              ![result.src].message = result.message,
              ![result.src].loc = [address  |-> result.address,
                                   district |-> result.district,
                                   province |-> result.province]]

\* the cells of the tables, and the empty cell a short row is padded with
CellTexts ==
  {NoText} \cup UNION {UNION {{t[i][j] : j \in 1..Len(t[i])} : i \in DOMAIN t} : t \in Tables}

\* strings.TrimSpace and then parseCoordinates on each cell
ParsedCells ==
  [t \in CellTexts |->
     LET coordStr == TrimSpace(t)
     IN  [coordStr |-> coordStr, parsed |-> parseCoordinates(coordStr)]]

\* take the next job, read and pad the row, trim and parse the coordinate
\* cell; a row without coordinates gets its Skipped result at once (the
\* results channel has room for one result per row, a send never blocks)
WorkerRecv(me) ==
  /\ pc = "collect"
  /\ me.pc = "recv"
  /\ jobs # <<>>
  /\ LET job      == Head(jobs)
         src      == IF batched THEN BatchRowPos(job) ELSE DirectRowPos(job)
         rowIndex == IF batched THEN BatchRowIndex(job) ELSE DirectRowIndex(job)
         maxCol   == Max2(Max2(cols.latLngCol, cols.addressCol),
                          Max2(cols.districtCol, cols.provinceCol))
         row      == PadRow(rows[src], maxCol)
         cell     == ParsedCells[row[cols.latLngCol + 1]]
         coordStr == cell.coordStr
         parsed   == cell.parsed
         result   == SkippedResult(rowIndex, src,
                       IF coordStr = NoText THEN MsgEmptyCoordinates ELSE parsed.err)
     IN  /\ jobs' = Tail(jobs)
         /\ IF coordStr = NoText \/ parsed.err # NoText
              THEN /\ results' = Append(results, result)
                   /\ rowLog' = LogResult(rowLog, result)
                   /\ UNCHANGED wk
              ELSE /\ wk' = Goes(me, [me EXCEPT !.pc = "get", !.rowIndex = rowIndex,
                                                !.src = src, !.coords = parsed.coords])
                   /\ UNCHANGED <<results, rowLog>>
  /\ UNCHANGED <<tableVars, pc, batchVars, batchProcessed, jobsClosed, sendIdx, sendEnd,
                 resultsClosed, wg, cache, appliedAt, written, poolRuns, geoVars>>

\* coordinateCache.get, under the read lock
cacheGet(c, lat, lng) ==
  LET key == cacheKey(lat, lng)
  IN  IF key \in DOMAIN c THEN [found |-> TRUE, loc |-> c[key]]
      ELSE [found |-> FALSE, loc |-> NoLocation]

cacheSetEvicting(c, lat, lng, loc) ==
  LET key == cacheKey(lat, lng)
  IN  [k \in {key} |-> loc]

\* coordinateCache.set, under the write lock
cacheSet(c, lat, lng, loc) ==
  LET key == cacheKey(lat, lng)
  IN  [k \in DOMAIN c \cup {key} |-> IF k = key THEN loc ELSE c[k]]

WorkerGetThenSet(me) ==
  /\ pc = "collect"
  /\ me.pc = "get"
  /\ LET got == cacheGet(cache, me.coords.Lat, me.coords.Lng)
     IN  IF got.found
           THEN /\ rowLog' = [rowLog EXCEPT ![me.src].hit = TRUE]
                /\ wk' = Goes(me, [me EXCEPT !.pc = "set", !.loc = got.loc])
           ELSE /\ wk' = Goes(me, [me EXCEPT !.pc = "geocode"])
                /\ UNCHANGED rowLog
  /\ UNCHANGED <<tableVars, pc, batchVars, batchProcessed, jobVars, resultVars, wg,
                 cache, appliedAt, written, poolRuns, geoVars>>

\* the cache lookup; on a hit the Resolved result
WorkerGet(me) ==
  /\ pc = "collect"
  /\ me.pc = "get"
  /\ LET got    == cacheGet(cache, me.coords.Lat, me.coords.Lng)
         result == ResolvedResult(me.rowIndex, me.src, got.loc, me.coords)
     IN  IF got.found
           THEN /\ results' = Append(results, result)
                /\ rowLog' = LogResult([rowLog EXCEPT ![me.src].hit = TRUE], result)
                /\ wk' = Goes(me, IdleWorker)
           ELSE /\ wk' = Goes(me, [me EXCEPT !.pc = "geocode"])
                /\ UNCHANGED <<results, rowLog>>
  /\ UNCHANGED <<tableVars, pc, batchVars, batchProcessed, jobVars, resultsClosed, wg,
                 cache, appliedAt, written, poolRuns, geoVars>>

\* what the upstream answers to the requests of one reverseGeocode call
PoolOracles ==
  {[a \in 0..(maxRetries - 1) |-> Ok(r)] : r \in Responses}
    \cup {[a \in 0..(maxRetries - 1) |-> Http(429)]}

\* the reverseGeocode calls a worker can make, each with what it returns
PoolCalls == {reverseGeocode(oracle) : oracle \in PoolOracles}

WorkerGeocodeDropsRow(me) ==
  /\ pc = "collect"
  /\ me.pc = "geocode"
  /\ \E call \in PoolCalls :
       LET called == [rowLog EXCEPT ![me.src].requests = @ + call.requests,
                                    ![me.src].slept = @ + requestDelay + SumSeq(call.sleeps)]
       IN  /\ rowLog' = called
           /\ wk' = Goes(me, IF call.err # NoText THEN IdleWorker
                             ELSE [me EXCEPT !.pc = "set", !.loc = call.loc])
           /\ UNCHANGED results
  /\ UNCHANGED <<tableVars, pc, batchVars, batchProcessed, jobVars, resultsClosed, wg,
                 cache, appliedAt, written, poolRuns, geoVars>>

WorkerGeocodeCachesFailure(me) ==
  /\ pc = "collect"
  /\ me.pc = "geocode"
  /\ \E call \in PoolCalls :
       LET called == [rowLog EXCEPT ![me.src].requests = @ + call.requests,
                                    ![me.src].slept = @ + requestDelay + SumSeq(call.sleeps)]
           result == SkippedResult(me.rowIndex, me.src, MsgGeocodeError \o call.err)
       IN  IF call.err # NoText
             THEN /\ results' = Append(results, result)
                  /\ rowLog' = LogResult(called, result)
                  /\ wk' = Goes(me, IdleWorker)
                  /\ cache' = cacheSet(cache, me.coords.Lat, me.coords.Lng, call.loc)
             ELSE /\ rowLog' = called
                  /\ wk' = Goes(me, [me EXCEPT !.pc = "set", !.loc = call.loc])
                  /\ UNCHANGED <<results, cache>>
  /\ UNCHANGED <<tableVars, pc, batchVars, batchProcessed, jobVars, resultsClosed, wg,
                 appliedAt, written, poolRuns, geoVars>>

\* the pacing sleep, then reverseGeocode; on an error the Skipped result
WorkerGeocode(me) ==
  /\ pc = "collect"
  /\ me.pc = "geocode"
  /\ \E call \in PoolCalls :
       LET called == [rowLog EXCEPT ![me.src].requests = @ + call.requests,
                                    ![me.src].slept = @ + requestDelay + SumSeq(call.sleeps)]
           result == SkippedResult(me.rowIndex, me.src, MsgGeocodeError \o call.err)
       IN  IF call.err # NoText
             THEN /\ results' = Append(results, result)
                  /\ rowLog' = LogResult(called, result)
                  /\ wk' = Goes(me, IdleWorker)
             ELSE /\ rowLog' = called
                  /\ wk' = Goes(me, [me EXCEPT !.pc = "set", !.loc = call.loc])
                  /\ UNCHANGED results
  /\ UNCHANGED <<tableVars, pc, batchVars, batchProcessed, jobVars, resultsClosed, wg,
                 cache, appliedAt, written, poolRuns, geoVars>>

WorkerSetWritesCell(me) ==
  /\ pc = "collect"
  /\ me.pc = "set"
  /\ LET result == ResolvedResult(me.rowIndex, me.src, me.loc, me.coords)
     IN  /\ cache' = cacheSet(cache, me.coords.Lat, me.coords.Lng, me.loc)
         /\ results' = Append(results, result)
         /\ rowLog' = LogResult([rowLog EXCEPT ![me.src].puts = @ + 1], result)
         /\ sheet' = SetCellValue(sheet, CellName(cols.addressCol, result.rowIndex + 1),
                                  result.address)
  /\ wk' = Goes(me, IdleWorker)
  /\ UNCHANGED <<rows, cols, fileVars, pc, batchVars, batchProcessed, jobVars,
                 resultsClosed, wg, appliedAt, written, poolRuns, geoVars>>

\* coordinateCache.set, then the Resolved result
WorkerSet(me) ==
  /\ pc = "collect"
  /\ me.pc = "set"
  /\ LET result == ResolvedResult(me.rowIndex, me.src, me.loc, me.coords)
     IN  /\ cache' = cacheSet(cache, me.coords.Lat, me.coords.Lng, me.loc)
         /\ results' = Append(results, result)
         /\ rowLog' = LogResult([rowLog EXCEPT ![me.src].puts = @ + 1], result)
  /\ wk' = Goes(me, IdleWorker)
  /\ UNCHANGED <<tableVars, pc, batchVars, batchProcessed, jobVars, resultsClosed, wg,
                 appliedAt, written, poolRuns, geoVars>>

WorkerExitWithoutDone(me) ==
  /\ pc = "collect"
  /\ me.pc = "recv"
  /\ jobs = <<>>
  /\ jobsClosed
  /\ wk' = wk (-) SetToBag({me})
  /\ UNCHANGED <<tableVars, pc, batchVars, batchProcessed, jobVars, resultVars, wg,
                 cache, rowLog, appliedAt, written, poolRuns, geoVars>>

\* range over a closed, drained jobs channel ends; the deferred wg.Done runs
WorkerExit(me) ==
  /\ pc = "collect"
  /\ me.pc = "recv"
  /\ jobs = <<>>
  /\ jobsClosed
  /\ wk' = wk (-) SetToBag({me})
  /\ wg' = wg - 1
  /\ UNCHANGED <<tableVars, pc, batchVars, batchProcessed, jobVars, resultVars,
                 cache, rowLog, appliedAt, written, poolRuns, geoVars>>

CloseResultsWithoutWait ==
  /\ pc = "collect"
  /\ ~resultsClosed
  /\ resultsClosed' = TRUE
  /\ UNCHANGED <<tableVars, pc, batchVars, batchProcessed, jobVars, results, wg, wk,
                 cache, rowLog, appliedAt, written, poolRuns, geoVars>>

\* wg.Wait(); close(results)
CloseResults ==
  /\ pc = "collect"
  /\ wg = 0
  /\ ~resultsClosed
  /\ resultsClosed' = TRUE
  /\ UNCHANGED <<tableVars, pc, batchVars, batchProcessed, jobVars, results, wg, wk,
                 cache, rowLog, appliedAt, written, poolRuns, geoVars>>

(***************************************************************************)
(* The result loop of processRows / processBatch.                          *)
(***************************************************************************)
ApplyResultInArrivalOrder(sh, result) ==
  LET rowNum == batchProcessed + 2
  IN  SetCellValue(
        SetCellValue(
          SetCellValue(sh, CellName(cols.addressCol, rowNum), result.address),
          CellName(cols.districtCol, rowNum), result.district),
        CellName(cols.provinceCol, rowNum), result.province)

ApplyResult(sh, result) ==
  LET rowNum == result.rowIndex + 1
  IN  SetCellValue(
        SetCellValue(
          SetCellValue(sh, CellName(cols.addressCol, rowNum), result.address),
          CellName(cols.districtCol, rowNum), result.district),
        CellName(cols.provinceCol, rowNum), result.province)

MsgRateLimit == <<"r", "a", "t", "e", " ", "l", "i", "m", "i", "t">>

printsSkippedAlways(result) == TRUE

\* whether the result loop prints "Row %d: %s" for a Skipped result:
\* processRows always, processBatch for every reportEvery-th row number and
\* for rate-limit messages
printsSkipped(result) ==
  \/ ~batched
  \/ (result.rowIndex + 1) % reportEvery = 0
  \/ Contains(result.message, MsgRateLimit)

CollectCountsSkipped ==
  /\ pc = "collect"
  /\ results # <<>>
  /\ LET result == Head(results)
         report == [row |-> result.rowIndex + 1, message |-> result.message]
     IN  /\ results' = Tail(results)
         /\ appliedAt' = [appliedAt EXCEPT ![result.rowIndex] = @ + 1]
         /\ batchProcessed' = batchProcessed + 1
         /\ IF result.skipped
              THEN /\ rowLog' = IF printsSkipped(result)
                                  THEN [rowLog EXCEPT ![result.src].reported = @ \cup {report}]
                                  ELSE rowLog
                   /\ UNCHANGED <<sheet, written>>
              ELSE /\ sheet' = ApplyResult(sheet, result)
                   /\ written' = written \cup {<<result.src, result.rowIndex + 1>>}
                   /\ UNCHANGED rowLog
  /\ UNCHANGED <<rows, cols, fileVars, pc, batchVars, jobVars, resultsClosed,
                 wg, wk, cache, poolRuns, geoVars>>

\* one pass of the result loop: a Skipped result is reported, a Resolved
\* one is written to its row and counted
Collect ==
  /\ pc = "collect"
  /\ results # <<>>
  /\ LET result == Head(results)
         report == [row |-> result.rowIndex + 1, message |-> result.message]
     IN  /\ results' = Tail(results)
         /\ appliedAt' = [appliedAt EXCEPT ![result.rowIndex] = @ + 1]
         /\ IF result.skipped
              THEN /\ rowLog' = IF printsSkipped(result)
                                  THEN [rowLog EXCEPT ![result.src].reported = @ \cup {report}]
                                  ELSE rowLog
                   /\ UNCHANGED <<sheet, batchProcessed, written>>
              ELSE /\ sheet' = ApplyResult(sheet, result)
                   /\ batchProcessed' = batchProcessed + 1
                   /\ written' = written \cup {<<result.src, result.rowIndex + 1>>}
                   /\ UNCHANGED rowLog
  /\ UNCHANGED <<rows, cols, fileVars, pc, batchVars, jobVars, resultsClosed,
                 wg, wk, cache, poolRuns, geoVars>>

CollectDoneBeforeClose ==
  /\ pc = "collect"
  /\ results = <<>>
  /\ IF batched
       THEN /\ processed' = processed + batchProcessed
            /\ pc' = "checkpoint"
       ELSE /\ processed' = batchProcessed
            /\ pc' = "save"
  /\ UNCHANGED <<tableVars, batch, batchStart, batchEnd, startIndex, batchProcessed,
                 jobVars, resultVars, wg, wk, cache, rowLog, appliedAt, written, poolRuns, geoVars>>

\* the result loop ends; the pool's count goes back to the caller
CollectDone ==
  /\ pc = "collect"
  /\ results = <<>>
  /\ resultsClosed
  /\ IF batched
       THEN /\ processed' = processed + batchProcessed
            /\ pc' = "checkpoint"
       ELSE /\ processed' = batchProcessed
            /\ pc' = "save"
  /\ UNCHANGED <<tableVars, batch, batchStart, batchEnd, startIndex, batchProcessed,
                 jobVars, resultVars, wg, wk, cache, rowLog, appliedAt, written, poolRuns, geoVars>>

CheckpointFailureReturns ==
  /\ pc = "checkpoint"
  /\ \E saved \in BOOLEAN :
       /\ pc' = IF saved THEN "progressSaved" ELSE "save"
       /\ tempFile' = IF saved THEN sheet ELSE tempFile
       /\ checkpoints' = Append(checkpoints, saved)
  /\ UNCHANGED <<rows, sheet, cols, outputFile, batchVars, batchProcessed, jobVars, resultVars, wg, wk,
                 cache, rowLog, appliedAt, written, poolRuns, geoVars>>

\* processRowsInBatches after processBatch: save the progress workbook; a
\* failed save only prints a warning
Checkpoint ==
  /\ pc = "checkpoint"
  /\ \E saved \in BOOLEAN :
       /\ pc' = IF saved THEN "progressSaved" ELSE "progressWarned"
       /\ tempFile' = IF saved THEN sheet ELSE tempFile
       /\ checkpoints' = Append(checkpoints, saved)
  /\ UNCHANGED <<rows, sheet, cols, outputFile, batchVars, batchProcessed, jobVars, resultVars, wg, wk,
                 cache, rowLog, appliedAt, written, poolRuns, geoVars>>

\* the pause between batches, then the next pass of the batch loop
BatchPauseDone ==
  /\ pc \in {"progressSaved", "progressWarned"}
  /\ batch' = batch + 1
  /\ pc' = "batched"
  /\ UNCHANGED <<tableVars, batchStart, batchEnd, startIndex, processed, batchProcessed,
                 jobVars, resultVars, wg, wk, cache, rowLog, appliedAt, written, poolRuns, geoVars>>

ProcessSaveWhileCollecting ==
  /\ pc \in {"save", "collect"}
  /\ \E saved \in BOOLEAN :
       IF saved THEN outputFile' = sheet /\ pc' = "done"
       ELSE UNCHANGED outputFile /\ pc' = "saveFailed"
  /\ UNCHANGED <<rows, sheet, cols, tempFile, checkpoints, batchVars, batchProcessed, jobVars,
                 resultVars, wg, wk, cache, rowLog, appliedAt, written, poolRuns, geoVars>>

\* Service.Process: create the data directory and save the output workbook
ProcessSave ==
  /\ pc = "save"
  /\ \E saved \in BOOLEAN :
       IF saved THEN outputFile' = sheet /\ pc' = "done"
       ELSE UNCHANGED outputFile /\ pc' = "saveFailed"
  /\ UNCHANGED <<rows, sheet, cols, tempFile, checkpoints, batchVars, batchProcessed, jobVars,
                 resultVars, wg, wk, cache, rowLog, appliedAt, written, poolRuns, geoVars>>

Next ==
  \/ Main
  \/ ProcessSetup
  \/ StartDirect
  \/ StartBatch
  \/ SendJob
  \/ CloseJobs
  \/ \E me \in Workers : WorkerRecv(me)
  \/ \E me \in Workers : WorkerGet(me)
  \/ \E me \in Workers : WorkerGeocode(me)
  \/ \E me \in Workers : WorkerSet(me)
  \/ \E me \in Workers : WorkerExit(me)
  \/ CloseResults
  \/ Collect
  \/ CollectDone
  \/ Checkpoint
  \/ BatchPauseDone
  \/ ProcessSave

Spec == Init /\ [][Next]_vars

\* the main goroutine: Process and the result loops it runs
Coordinator ==
  \/ Main
  \/ ProcessSetup
  \/ StartDirect
  \/ StartBatch
  \/ Collect
  \/ CollectDone
  \/ Checkpoint
  \/ BatchPauseDone
  \/ ProcessSave

\* the goroutine that sends the jobs and closes the jobs channel
JobSender == SendJob \/ CloseJobs

\* the worker goroutines; a reverseGeocode call returns, the HTTP client
\* having a timeout
WorkerStep ==
  \E me \in Workers :
    \/ WorkerRecv(me)
    \/ WorkerGet(me)
    \/ WorkerGeocode(me)
    \/ WorkerSet(me)
    \/ WorkerExit(me)

\* the Go scheduler runs every goroutine that is not blocked
Fairness ==
  /\ WF_vars(Coordinator)
  /\ WF_vars(JobSender)
  /\ WF_vars(WorkerStep)
  /\ WF_vars(CloseResults)

\* the tables of the runs followed to their end: of every length up to
\* MaxRows, with rows that are skipped, that call the upstream and that hit
\* the cache; under a header that has the output columns; under a header
\* without a coordinate column; and the table without rows
LiveTables ==
  {TableOf(HeaderReadme, d) : d \in RepeatingUpTo(MaxRows, {<<CoordBad>>, <<CoordA>>})}
    \cup {TableOf(HeaderComplete, d) : d \in RowsUpTo(MaxRows, {<<CoordA>>})}
    \cup {TableOf(HeaderUnnamed, d) : d \in RowsUpTo(1, {<<CoordA>>, <<CoordBad>>})}
    \cup {EmptyTable}

InitLive ==
  /\ InitPool(LiveTables)
  /\ geo = GeoCall
  /\ geoAnswers = <<>>
  /\ InitLock

SpecLive == InitLive /\ [][Next]_vars /\ Fairness

(***************************************************************************)
(* One reverseGeocode call on its own, one pass of the attempt loop per    *)
(* step, against every sequence of upstream answers.                       *)
(***************************************************************************)
GeoAttempt ==
  /\ ~geo.returned
  /\ \E out \in Outcomes :
       /\ geo' = GeoStep(geo, out)
       /\ geoAnswers' = IF geo.attempt < maxRetries THEN Append(geoAnswers, out)
                        ELSE geoAnswers
  /\ UNCHANGED <<poolVars, lockVars>>

InitGeocode ==
  /\ InitPool({TableOf(HeaderReadme, <<>>)})
  /\ geo = GeoCall
  /\ geoAnswers = <<>>
  /\ InitLock

NextGeocode == GeoAttempt

SpecGeocode == InitGeocode /\ [][NextGeocode]_vars

(***************************************************************************)
(* The success path of reverseGeocode on its own: a decoded body with any  *)
(* combination of present and absent address fields is formatted by        *)
(* formatFullAddress and extractDistrictAndProvince.                       *)
(***************************************************************************)
StungTreng == <<"S", "t", "u", "n", "g", " ", "T", "r", "e", "n", "g">>

Cambodia == <<"C", "a", "m", "b", "o", "d", "i", "a">>

AddressBreakdowns ==
  [HouseNumber : {NoText, <<"1", "2">>}, Road : {NoText, <<"R", "d">>}, Suburb : {NoText, <<"S", "b">>},
   City : {NoText, <<"C", "i">>}, County : {NoText, <<"C", "o">>}, State : {NoText, <<"S", "t">>},
   StateDistrict : {NoText, <<"S", "D">>}, Postcode : {NoText, <<"1", "0">>},
   Country : {NoText, Cambodia}, Subdistrict : {NoText, <<"S", "d">>},
   District : {NoText, StungTreng}, Province : {NoText, StungTreng}]

DisplayNames == {NoText, RespStungTreng.DisplayName, RespBangkok.DisplayName}

Bodies == [DisplayName : DisplayNames, Address : AddressBreakdowns]

InitFormat ==
  /\ InitPool({TableOf(HeaderReadme, <<>>)})
  /\ geo = GeoCall
  /\ \E body \in Bodies : geoAnswers = <<Ok(body)>>
  /\ InitLock

GeoDecoded ==
  /\ ~geo.returned
  /\ geo' = GeoStep(geo, geoAnswers[1])
  /\ UNCHANGED <<geoAnswers, poolVars, lockVars>>

NextFormat == GeoDecoded

SpecFormat == InitFormat /\ [][NextFormat]_vars

(***************************************************************************)
(* coordinateCache on its own: every goroutine calls get and set with any  *)
(* coordinates and any location, in any interleaving.  A call is followed  *)
(* lock by lock: the key is formatted, the lock is taken, the map is read  *)
(* or the entry is stored field by field, and the deferred unlock runs as  *)
(* the call returns.                                                       *)
(***************************************************************************)
CacheCoordinates == {parseCoordinates(CoordA).coords, parseCoordinates(CoordB).coords}

CacheLocations == {GeoStep(GeoCall, Ok(r)).loc : r \in Responses}

\* everything but the cache and its lock
aroundCache ==
  <<rows, sheet, pc, cols, batch, batchStart, batchEnd, startIndex,
    processed, batchProcessed, jobs, jobsClosed, sendIdx, sendEnd,
    results, resultsClosed, wg, wk, outputFile, tempFile,
    rowLog, appliedAt, written, poolRuns, checkpoints, geo, geoAnswers>>

CallKey(call) == cacheKey(call.coords.Lat, call.coords.Lng)

\* get is called: the key is formatted
GetCall(g) ==
  /\ calls[g].pc = "idle"
  /\ \E coords \in CacheCoordinates :
       calls' = [calls EXCEPT ![g] = [NoCall EXCEPT !.pc = "rlock", !.coords = coords]]
  /\ UNCHANGED <<cache, mu, puts, aroundCache>>

\* c.mu.RLock(): waits while the write lock is held
GetRLock(g) ==
  /\ calls[g].pc = "rlock"
  /\ ~mu.writer
  /\ mu' = [mu EXCEPT !.readers = @ + 1]
  /\ calls' = [calls EXCEPT ![g].pc = "lookup"]
  /\ UNCHANGED <<cache, puts, aroundCache>>

\* entry, exists := c.cache[key]
GetLookup(g) ==
  /\ calls[g].pc = "lookup"
  /\ calls' = [calls EXCEPT ![g].pc = "runlock",
                            ![g].ret = cacheGet(cache, calls[g].coords.Lat, calls[g].coords.Lng)]
  /\ UNCHANGED <<cache, mu, puts, aroundCache>>

\* the deferred c.mu.RUnlock(), and the return
GetRUnlock(g) ==
  /\ calls[g].pc = "runlock"
  /\ mu' = [mu EXCEPT !.readers = @ - 1]
  /\ calls' = [calls EXCEPT ![g] = NoCall]
  /\ UNCHANGED <<cache, puts, aroundCache>>

\* set is called: the key is formatted
SetCall(g) ==
  /\ calls[g].pc = "idle"
  /\ \E coords \in CacheCoordinates, loc \in CacheLocations :
       calls' = [calls EXCEPT ![g] = [NoCall EXCEPT !.pc = "lock", !.coords = coords,
                                                    !.loc = loc]]
  /\ UNCHANGED <<cache, mu, puts, aroundCache>>

SetLockIgnoringReaders(g) ==
  /\ calls[g].pc = "lock"
  /\ ~mu.writer
  /\ mu' = [mu EXCEPT !.writer = TRUE]
  /\ calls' = [calls EXCEPT ![g].pc = "address"]
  /\ puts' = puts \cup {<<CallKey(calls[g]), calls[g].loc>>}
  /\ UNCHANGED <<cache, aroundCache>>

\* c.mu.Lock(): waits while any lock is held
SetLock(g) ==
  /\ calls[g].pc = "lock"
  /\ ~mu.writer
  /\ mu.readers = 0
  /\ mu' = [mu EXCEPT !.writer = TRUE]
  /\ calls' = [calls EXCEPT ![g].pc = "address"]
  /\ puts' = puts \cup {<<CallKey(calls[g]), calls[g].loc>>}
  /\ UNCHANGED <<cache, aroundCache>>

\* the entry of a key, as the map holds it while a store is under way
EntryOf(c, key) == IF key \in DOMAIN c THEN c[key] ELSE NoLocation

StoreField(c, key, field, value) ==
  [k \in DOMAIN c \cup {key} |->
     IF k = key THEN [EntryOf(c, key) EXCEPT ![field] = value] ELSE c[k]]

\* c.cache[key] = cacheEntry{...}: the three fields of the entry are stored
SetStore(g) ==
  /\ calls[g].pc \in {"address", "district", "province"}
  /\ LET field == calls[g].pc
     IN  /\ cache' = StoreField(cache, CallKey(calls[g]), field, calls[g].loc[field])
         /\ calls' = [calls EXCEPT ![g].pc = CASE field = "address" -> "district"
                                               [] field = "district" -> "province"
                                               [] field = "province" -> "unlock"]
  /\ UNCHANGED <<mu, puts, aroundCache>>

\* the deferred c.mu.Unlock(), and the return
SetUnlock(g) ==
  /\ calls[g].pc = "unlock"
  /\ mu' = [mu EXCEPT !.writer = FALSE]
  /\ calls' = [calls EXCEPT ![g] = NoCall]
  /\ UNCHANGED <<cache, puts, aroundCache>>

InitCache ==
  /\ InitPool({TableOf(HeaderReadme, <<>>)})
  /\ geo = GeoCall
  /\ geoAnswers = <<>>
  /\ InitLock

NextCache ==
  \E g \in Goroutines :
    \/ GetCall(g)
    \/ GetRLock(g)
    \/ GetLookup(g)
    \/ GetRUnlock(g)
    \/ SetCall(g)
    \/ SetLock(g)
    \/ SetStore(g)
    \/ SetUnlock(g)

SpecCache == InitCache /\ [][NextCache]_vars

(***************************************************************************)
(* Properties of one reverseGeocode call (SpecGeocode).                    *)
(***************************************************************************)
TooMany == Http(429)

\* C6: when the upstream answers 429 to the first two requests and 200 with
\* a named place to the third, the call is still running after two requests
\* and returns the location, without an error, after exactly three.
C6_RetryThenSuccess ==
  /\ geoAnswers = <<TooMany, TooMany>> => ~geo.returned /\ geo.requests = 2
  /\ \A r \in Responses :
       geoAnswers = <<TooMany, TooMany, Ok(r)>> =>
         /\ geo.returned
         /\ geo.err = NoText
         /\ geo.requests = 3
         /\ geo.loc.address # NoText

C6_Witness ==
  /\ geoAnswers = <<TooMany, TooMany, Ok(RespStungTreng)>>
  /\ geo.returned
  /\ geo.err = NoText

\* C7: when the upstream answers 429 to all three requests the call returns
\* the rate-limit error after exactly three requests: it has then returned,
\* sent no fourth request, and the error is not the retry-exhaustion one.
C7_RateLimitedAfterThree ==
  /\ geoAnswers = <<TooMany, TooMany, TooMany>> =>
       /\ geo.returned
       /\ geo.err = ErrRateLimit
       /\ geo.requests = 3
  /\ (\A i \in 1..Len(geoAnswers) : geoAnswers[i] = TooMany) =>
       /\ Len(geoAnswers) <= 3
       /\ geo.err # ErrExhausted

C7_Witness ==
  /\ geoAnswers = <<TooMany, TooMany, TooMany>>
  /\ geo.returned
  /\ geo.err = ErrRateLimit

\* C8: whatever the upstream answers, a call sends at most three requests,
\* one per answer it consumed, and has sent at least one when it returns.
C8_RequestsBounded ==
  /\ geo.requests <= 3
  /\ geo.requests = Len(geoAnswers)
  /\ geo.returned => geo.requests >= 1

C8_Witness ==
  /\ geo.returned
  /\ geo.requests = 3
  /\ geoAnswers[1] = NetFail
  /\ geoAnswers[2] = Http(500)
  /\ geoAnswers[3] = Undecodable

(***************************************************************************)
(* Properties of a run (Spec).                                             *)
(***************************************************************************)
DataPositions == 1..totalRows

Finished == {"save", "done", "saveFailed"}

\* the coordinate cell of the row at table position p, as the table holds it
CellText(p) == IF rows[p] = <<>> THEN NoText ELSE rows[p][1]

Unparseable(p) == CellText(p) \in {NoText, CoordBlank, CoordBad}

\* the two components of a well-formed cell as Sprintf prints them with six decimals
SixDecimals(p) ==
  CASE CellText(p) \in {CoordA, CoordA2} -> <<<<"1", ".", "5", "0", "0", "0", "0", "0">>, <<"2", ".", "0", "0", "0", "0", "0", "0">>>>
    [] CellText(p) = CoordB -> <<<<"1", ".", "5", "0", "0", "0", "0", "0">>, <<"4", ".", "0", "0", "0", "0", "0", "0">>>>

SameKey(p, q) == ~Unparseable(p) /\ ~Unparseable(q) /\ SixDecimals(p) = SixDecimals(q)

Emitted(p) == rowLog[p].emitted

IsResolved(p) == rowLog[p].emitted >= 1 /\ rowLog[p].resolved

Requests(p) == rowLog[p].requests

\* the spreadsheet rows that received the values of table position p
RowsWrittenFor(p) == {w[2] : w \in {x \in written : x[1] = p}}

\* the text of a cell of the sheet, empty for a cell never set
CellValue(name) == IF name \in DOMAIN sheet THEN sheet[name] ELSE NoText

OutputCells(rowNum) ==
  <<CellValue(CellName(cols.addressCol, rowNum)),
    CellValue(CellName(cols.districtCol, rowNum)),
    CellValue(CellName(cols.provinceCol, rowNum))>>

\* C1: every Resolved result is written to the spreadsheet row of its own
\* table row: the values of position p go to row p+1 and to no other row.
C1_WrittenToOwnRow == \A w \in written : w[2] = w[1] + 1

\* C2: a batched run starts ceil(N/B) worker pools, and the row indices of
\* the results it applied are exactly 1..N, each once.
C2_BatchesCoverRows ==
  (batched /\ pc \in Finished) =>
    /\ poolRuns * batchSize >= totalRows
    /\ (poolRuns - 1) * batchSize < totalRows
    /\ appliedAt[0] = 0
    /\ \A i \in DataPositions : appliedAt[i] = 1

\* C3: in every worker pool each data row, and never the header row, is one
\* job: it is in the queue, or held by one worker, or has its one result;
\* once the jobs channel is closed no row of the pool is missing, and when
\* the pool is over every one of its rows has exactly one result.
JobPos(job) == IF batched THEN batchStart + job ELSE job

Queued(p) == Cardinality({i \in 1..Len(jobs) : JobPos(jobs[i]) = p})

Busy == {"get", "geocode", "set"}

Held(p) ==
  LET holders == {w \in Workers : w.pc \in Busy /\ w.src = p}
  IN  IF holders = {} THEN 0 ELSE BagCardinality([w \in holders |-> CopiesIn(w, wk)])

PoolRows == IF batched THEN batchStart..(batchEnd - 1) ELSE DataPositions

PoolOver(p) ==
  \/ pc \in Finished
  \/ batched /\ p < batchStart
  \/ batched /\ p < batchEnd /\ pc # "collect"

C3_ExactlyOnce ==
  /\ Emitted(0) = 0
  /\ \A w \in Workers : w.pc \in Busy => w.src \in DataPositions
  /\ \A i \in 1..Len(results) : results[i].src \in DataPositions
  /\ \A p \in DataPositions : Queued(p) + Held(p) + Emitted(p) <= 1
  /\ (pc = "collect" /\ jobsClosed) =>
       \A p \in PoolRows : Queued(p) + Held(p) + Emitted(p) = 1
  /\ \A p \in DataPositions : PoolOver(p) => Emitted(p) = 1

C3_Witness ==
  /\ pc = "save"
  /\ ~batched
  /\ totalRows = 2
  /\ \A p \in DataPositions : Emitted(p) = 1 /\ appliedAt[p] = 1

\* the pairs of rows C4 is about: the only two rows of the table with their
\* key, both Resolved, every request made for them answered with success
OnlyPair(p, q) ==
  /\ p < q
  /\ SameKey(p, q)
  /\ \A r \in DataPositions : SameKey(p, r) => r \in {p, q}
  /\ IsResolved(p) /\ IsResolved(q)

SamePool(p, q) == ~batched \/ (p - 1) \div batchSize = (q - 1) \div batchSize

\* C4 as stated: for two rows with one cache key, exactly one upstream call
\* is made for the two together, in every interleaving.
C4_ExactlyOneCall ==
  \A p, q \in DataPositions : OnlyPair(p, q) => Requests(p) + Requests(q) = 1

\* C4 as amended: each of the two rows makes at most one upstream call and
\* at least one of them makes one; the two make exactly one call whenever
\* they are processed in different worker pools (then the second row's cache
\* lookup follows the first row's cache store); two workers of one pool may
\* both miss the cache and both call.
C4_OneOrTwoCalls ==
  \A p, q \in DataPositions : OnlyPair(p, q) =>
    /\ Requests(p) <= 1
    /\ Requests(q) <= 1
    /\ Requests(p) + Requests(q) >= 1
    /\ ~SamePool(p, q) => Requests(p) = 1 /\ Requests(q) = 0

C4_Witness ==
  \E p, q \in DataPositions :
    /\ OnlyPair(p, q)
    /\ CellText(p) # CellText(q)
    /\ SamePool(p, q)
    /\ Requests(p) + Requests(q) = 1

\* C5 as stated: two Resolved rows with one cache key hold the same three
\* values in their rows of the destination table.
C5_SameValuesInOwnRows ==
  \A p, q \in DataPositions :
    (SameKey(p, q) /\ RowsWrittenFor(p) # {} /\ RowsWrittenFor(q) # {}) =>
      OutputCells(p + 1) = OutputCells(q + 1)

\* the rows of p's key that were Resolved by an upstream call of their own
Callers(p) == {r \in DataPositions : SameKey(p, r) /\ IsResolved(r) /\ Requests(r) >= 1}

ValuesOf(p) == {OutputCells(rowNum) : rowNum \in RowsWrittenFor(p)}

AllApplied == \A p \in DataPositions : IsResolved(p) => RowsWrittenFor(p) # {}

\* C5 as amended: the values written for a Resolved row are those that an
\* upstream call of this run returned for its cache key (its own call or, on
\* a cache hit, the call of another row with the key); so two Resolved rows
\* with one key are written the same values whenever the upstream returned
\* the same location to every call for that key.  The values of a result
\* are in the spreadsheet row rowIndex+1 of the result.
C5_SameValuesWhenUpstreamAgrees ==
  (pc \in Finished /\ AllApplied) =>
    \A p, q \in DataPositions :
      (SameKey(p, q) /\ IsResolved(p) /\ IsResolved(q)) =>
        /\ ValuesOf(p) \subseteq UNION {ValuesOf(r) : r \in Callers(p)}
        /\ (Cardinality(UNION {ValuesOf(r) : r \in Callers(p)}) = 1 => ValuesOf(p) = ValuesOf(q))

C5_Witness ==
  /\ pc \in Finished
  /\ \E p, q \in DataPositions :
       /\ p # q
       /\ SameKey(p, q)
       /\ CellText(p) # CellText(q)
       /\ IsResolved(p) /\ IsResolved(q)
       /\ Requests(p) = 1 /\ Requests(q) = 0
       /\ ValuesOf(p) = ValuesOf(q)
       /\ Cardinality(ValuesOf(p)) = 1

\* C9: a row whose coordinate cell is missing, blank or malformed is never
\* looked up in the cache, geocoded or stored: no request is made for it and
\* its one result is Skipped.
C9_UnparseableRowSkipped ==
  \A p \in DataPositions : Unparseable(p) =>
    /\ Requests(p) = 0
    /\ ~rowLog[p].resolved
    /\ \A w \in Workers : w.pc \in Busy => w.src # p
    /\ \A i \in 1..Len(results) : results[i].src = p => results[i].skipped
    /\ RowsWrittenFor(p) = {}
    /\ PoolOver(p) => Emitted(p) = 1

C9_Witness ==
  /\ pc = "done"
  /\ \E p, q \in DataPositions :
       /\ CellText(p) = CoordBad /\ Emitted(p) = 1
       /\ CellText(q) = CoordA /\ IsResolved(q)
       /\ p < q

\* some goroutine of the run can take its next step
WorkerRunnable(w) ==
  \/ w.pc \in {"get", "geocode", "set"}
  \/ w.pc = "recv" /\ (jobs # <<>> \/ jobsClosed)

Runnable ==
  \/ pc \in {"main", "start", "direct", "batched", "checkpoint", "progressSaved",
              "progressWarned", "save"}
  \/ /\ pc = "collect"
     /\ \/ ~jobsClosed
        \/ \E w \in Workers : WorkerRunnable(w)
        \/ wg = 0 /\ ~resultsClosed
        \/ results # <<>>
        \/ resultsClosed

\* C10: once a row has been skipped, for a malformed cell or for a geocode
\* error, the run goes on: some goroutine can take a step until the run has
\* saved or failed to save the output, and the run reaches the save only
\* with one result for every data row, all consumed by the result loop.
SomeRowSkipped == \E p \in DataPositions : Emitted(p) >= 1 /\ ~rowLog[p].resolved

C10_RowFailureDoesNotAbort ==
  SomeRowSkipped =>
    /\ pc # "setupFailed"
    /\ pc \notin {"done", "saveFailed"} => Runnable
    /\ pc \in Finished =>
         /\ results = <<>>
         /\ \A p \in DataPositions : Emitted(p) = 1

C10_Witness ==
  /\ pc = "done"
  /\ \E p, q, r \in DataPositions :
       /\ CellText(p) = CoordBad /\ Emitted(p) = 1
       /\ ~Unparseable(q) /\ Emitted(q) = 1 /\ ~rowLog[q].resolved /\ Requests(q) = 3
       /\ IsResolved(r) /\ RowsWrittenFor(r) # {}
       /\ p < r /\ q < r

(***************************************************************************)
(* Setup failures, checkpoints and the choice of mode.                     *)
(***************************************************************************)
SetupFailed == pc \in {"openFailed", "setupFailed"}

\* C11: when the input cannot be opened, the table is empty or no coordinate
\* column is found, the run ends there: no worker pool was started, no
\* request made, no result produced, the cache and every cell of the table
\* are as they were read, nothing was saved, and no step follows.
C11_SetupFailureAborts ==
  SetupFailed =>
    /\ poolRuns = 0
    /\ wk = EmptyBag
    /\ jobs = <<>> /\ results = <<>>
    /\ \A p \in Positions : Requests(p) = 0 /\ Emitted(p) = 0
    /\ cache = <<>>
    /\ written = {}
    /\ sheet = SheetOf(rows)
    /\ outputFile = NoFile
    /\ tempFile = NoFile
    /\ checkpoints = <<>>
    /\ ~Runnable

C11_Witness ==
  /\ pc = "setupFailed"
  /\ totalRows = 1
  /\ CellText(1) = CoordBad

\* some progress save of the run has failed
Warned == \E k \in 1..Len(checkpoints) : ~checkpoints[k]

\* C12: after a failed progress save the run goes on: it is never stuck and
\* never aborted, what the result loop wrote is still in the table, and it
\* reaches the final save only when every batch has been run by a worker
\* pool, with one result for every data row and one progress save attempted
\* per batch.
C12_CheckpointFailureNotFatal ==
  Warned =>
    /\ ~SetupFailed
    /\ pc \notin {"done", "saveFailed"} => Runnable
    /\ \A w \in written : OutputCells(w[2])[1] # NoText
    /\ pc \in Finished =>
         /\ poolRuns = totalBatches
         /\ Len(checkpoints) = totalBatches
         /\ \A p \in DataPositions : Emitted(p) = 1
         /\ \A p \in DataPositions : IsResolved(p) => RowsWrittenFor(p) # {}

C12_Witness ==
  /\ pc = "done"
  /\ checkpoints = <<FALSE, TRUE>>
  /\ \A p \in DataPositions : IsResolved(p) /\ RowsWrittenFor(p) # {}
  /\ totalRows = 3

\* the table has more data rows than the threshold
Large == totalRows > LargeThreshold

\* the progress saves a batched run has attempted when it is at batch number batch
SavesDue == IF pc \in {"progressSaved", "progressWarned"} THEN batch + 1 ELSE batch

\* C13: the number of data rows alone selects the mode.  At or below the
\* threshold at most one worker pool is started, its jobs are the whole row
\* range 1..N, and no progress workbook is ever saved; above it every pool
\* takes the next batchSize rows (the last one the rest) and one progress
\* save is attempted after each batch.
C13_ModeByRowCount ==
  /\ ~Large =>
       /\ poolRuns <= 1
       /\ checkpoints = <<>>
       /\ tempFile = NoFile
       /\ poolRuns = 1 =>
            /\ sendEnd = RowCount(rows)
            /\ sendIdx >= 1
            /\ \A i \in 1..Len(jobs) : jobs[i] = sendIdx - Len(jobs) + i - 1
            /\ jobsClosed => \A p \in DataPositions : Queued(p) + Held(p) + Emitted(p) = 1
       /\ pc \in Finished => poolRuns = 1
  /\ Large /\ ~SetupFailed /\ pc \notin {"main", "start"} =>
       /\ Len(checkpoints) = SavesDue
       /\ poolRuns >= 1 =>
            /\ batchStart = (poolRuns - 1) * batchSize + 1
            /\ batchEnd - batchStart <= batchSize
            /\ batchEnd - batchStart = batchSize \/ batchEnd = RowCount(rows)
       /\ pc \in Finished =>
            /\ poolRuns = totalBatches
            /\ poolRuns * batchSize >= totalRows
            /\ Len(checkpoints) = poolRuns

C13_Witness ==
  /\ pc = "done"
  /\ Large
  /\ poolRuns = 2
  /\ Len(checkpoints) = 2

\* the run has located or created its output columns
ColumnsSet == pc \notin {"main", "start"} /\ ~SetupFailed

\* C14: under the README's header LatLng | District | Province the District
\* and Province columns that exist are the ones used: no second District or
\* Province column is created, and the district and province of a Resolved
\* row are written into columns B and C.
C14_ExistingColumnsReused ==
  (ColumnsSet /\ rows[0] = HeaderReadme) =>
    /\ cols.districtCol = 1
    /\ cols.provinceCol = 2
    /\ \A c \in {"D", "E", "F"} :
         CellValue(<<c, 1>>) \notin {HdrDistrict, HdrProvince} \/ written # {}
    /\ \A w \in written :
         /\ CellValue(<<"B", w[2]>>) # NoText
         /\ CellValue(<<"C", w[2]>>) # NoText

(***************************************************************************)
(* Properties of the formatting of a decoded body (SpecFormat).            *)
(***************************************************************************)
\* the first text of a list of alternatives that is present
RECURSIVE FirstPresent(_)
FirstPresent(texts) ==
  IF texts = <<>> THEN NoText
  ELSE IF Head(texts) # NoText THEN Head(texts)
  ELSE FirstPresent(Tail(texts))

Present(t) == t # NoText

HouseAndRoad(addr) ==
  IF addr.HouseNumber # NoText /\ addr.Road # NoText
    THEN addr.HouseNumber \o <<Space>> \o addr.Road
    ELSE FirstPresent(<<addr.Road, addr.HouseNumber>>)

Members(addr) ==
  SelectSeq(<<HouseAndRoad(addr),
              FirstPresent(<<addr.Subdistrict, addr.Suburb>>),
              FirstPresent(<<addr.District, addr.County, addr.StateDistrict>>),
              FirstPresent(<<addr.Province, addr.State, addr.City>>),
              addr.Postcode,
              addr.Country>>, Present)

StungTrengAddress ==
  [EmptyAddress EXCEPT !.District = StungTreng, !.Province = StungTreng,
                       !.Country = Cambodia]

StungTrengFull == <<"S", "t", "u", "n", "g", " ", "T", "r", "e", "n", "g", ",", " ", "S", "t", "u", "n", "g", " ", "T", "r", "e", "n", "g", ",", " ", "C", "a", "m", "b", "o", "d", "i", "a">>

Formatted == geo.returned /\ geo.err = NoText

\* C15: the full address of a decoded body is its present members, in the
\* order house number and road, subdistrict or suburb, district or county or
\* state district, province or state or city, postcode, country, joined by
\* ", ", and the display name when no member is present; the breakdown with
\* only district Stung Treng, province Stung Treng and country Cambodia gives
\* "Stung Treng, Stung Treng, Cambodia", district and province Stung Treng.
C15_FullAddress ==
  Formatted =>
    LET body == geoAnswers[1].body
        members == Members(body.Address)
    IN  /\ geo.loc.address =
             IF members = <<>> THEN body.DisplayName ELSE Join(members)
        /\ body.Address = StungTrengAddress =>
             geo.loc = [address |-> StungTrengFull, district |-> StungTreng,
                        province |-> StungTreng]

C15_Witness ==
  /\ Formatted
  /\ geoAnswers[1].body.Address = StungTrengAddress
  /\ geo.loc.address = StungTrengFull
  /\ geo.loc.district = StungTreng

(***************************************************************************)
(* Properties of the final table (Spec).                                   *)
(***************************************************************************)
\* the sheet as column setup leaves it
SetupSheet ==
  IF cols.addressCol = Len(rows[0])
    THEN addAddressColumns(SheetOf(rows), Len(rows[0])).sheet
    ELSE SheetOf(rows)

WrittenPositions == {w[1] : w \in written}

OutputColumns == {cols.addressCol, cols.districtCol, cols.provinceCol}

\* the output cells of the spreadsheet rows of the positions that were written
OwnCells == {CellName(c, p + 1) : c \in OutputColumns, p \in WrittenPositions}

\* the table a direct run leaves for the results of this run: the sheet of
\* column setup with the values of every written position in its own row
DirectTable ==
  [name \in DOMAIN SetupSheet \cup OwnCells |->
     IF name \in OwnCells
       THEN LET p == name[2] - 1
                r == CHOOSE rowNum \in RowsWrittenFor(p) : TRUE
            IN  CellValue(<<name[1], r>>)
       ELSE SetupSheet[name]]

\* C16: a batched run ends with the table a direct run leaves for the same
\* rows and the same upstream answers: the same cells with the same values,
\* the header row included.
C16_BatchedLeavesDirectTable ==
  (pc \in Finished /\ Large) => sheet = DirectTable

\* C17: after column setup nothing is written to spreadsheet row 1, and the
\* Address, District and Province labels of the header row stay as they are.
C17_HeaderRowUntouched ==
  ColumnsSet =>
    /\ \A w \in written : w[2] # 1
    /\ OutputCells(1) = <<HdrAddress, HdrDistrict, HdrProvince>>

(***************************************************************************)
(* Properties of the worker pool's channels and of the batch loop (Spec).  *)
(***************************************************************************)
\* C18: when the results channel of a pool is closed, every worker of the
\* pool has exited, every job was sent and taken, no row is still held by a
\* worker, and every row of the pool has produced exactly one result; so no
\* worker is left to send on the closed channel.
C18_ClosedAfterWorkersAndResults ==
  resultsClosed =>
    /\ wk = EmptyBag
    /\ wg = 0
    /\ jobsClosed
    /\ sendIdx = sendEnd
    /\ jobs = <<>>
    /\ \A p \in PoolRows : Queued(p) = 0 /\ Held(p) = 0 /\ Emitted(p) = 1

C18_Witness ==
  /\ resultsClosed
  /\ pc = "collect"
  /\ Len(results) = 2
  /\ \A p \in PoolRows : Emitted(p) = 1

\* results the result loop has consumed so far, over all pools
RECURSIVE AppliedUpTo(_)
AppliedUpTo(i) == IF i < 0 THEN 0 ELSE appliedAt[i] + AppliedUpTo(i - 1)

AppliedCount == AppliedUpTo(totalRows)

\* the first table position that belongs to a batch not yet started
FutureStart == IF poolRuns = 0 THEN 1 ELSE batchEnd

\* C19: in a batched run at most one worker pool exists at a time; while the
\* pool of batch k works, no row of a later batch has been queued, taken or
\* requested upstream; the pool of batch k+1 runs only after every result of
\* the batches before it was consumed by the result loop and one progress
\* save per earlier batch was attempted; between pools no worker exists.
C19_BatchesSequential ==
  (Large /\ ColumnsSet) =>
    /\ BagCardinality(wk) <= numWorkers
    /\ wg <= numWorkers
    /\ pc # "collect" => wk = EmptyBag /\ wg = 0 /\ jobs = <<>> /\ results = <<>>
    /\ \A p \in DataPositions :
         p >= FutureStart =>
           Requests(p) = 0 /\ Emitted(p) = 0 /\ Queued(p) = 0 /\ Held(p) = 0
    /\ pc = "collect" =>
         /\ poolRuns = batch + 1
         /\ Len(checkpoints) = batch
         /\ AppliedCount >= batchStart - 1
         /\ \A p \in DataPositions : p < batchStart => Emitted(p) = 1
    /\ pc \in {"checkpoint", "progressSaved", "progressWarned"} =>
         AppliedCount = batchEnd - 1

C19_Witness ==
  /\ Large
  /\ pc = "collect"
  /\ poolRuns = 2
  /\ checkpoints = <<TRUE>>
  /\ AppliedCount = batchStart - 1
  /\ \E w \in Workers : w.pc = "geocode" /\ w.src >= batchStart

(***************************************************************************)
(* Who writes the table, and when (Spec).                                  *)
(***************************************************************************)
PoolWritten == {w \in written : w[1] \in PoolRows}

\* C20: a cell is written for a pool only when no worker of the pool is
\* running any more and every row of the pool has produced its result.
C20_WritesAfterPoolFinished ==
  (pc = "collect" /\ PoolWritten # {}) =>
    /\ wk = EmptyBag
    /\ \A p \in PoolRows : Emitted(p) = 1

ChangedCells == {name \in DOMAIN sheet' : name \notin DOMAIN sheet \/ sheet'[name] # sheet[name]}

OutputColumnNames == {CellName(c, 1)[1] : c \in OutputColumns}

\* C20 as amended: after column setup the table is changed only by the
\* result loop, by consuming one result that a worker has already produced:
\* the step takes the head of the results channel, leaves every worker and
\* the row history as they are, and changes only the output cells of the
\* spreadsheet row rowIndex+1 of that result.  Workers never write a cell,
\* and the loop may write while workers of the same pool are still running.
C20_OnlyResultLoopWrites ==
  [][sheet' # sheet =>
       \/ pc = "start"
       \/ /\ pc = "collect"
          /\ results # <<>>
          /\ ~Head(results).skipped
          /\ Emitted(Head(results).src) = 1
          /\ results' = Tail(results)
          /\ wk' = wk
          /\ rowLog' = rowLog
          /\ \A name \in ChangedCells :
               /\ name[2] = Head(results).rowIndex + 1
               /\ name[1] \in OutputColumnNames]_vars

C20_Witness ==
  /\ pc = "collect"
  /\ PoolWritten # {}
  /\ \E w \in Workers : w.pc = "geocode"
  /\ \E p \in PoolRows : Emitted(p) = 0

\* C21: every cell write after column setup is a step of the one thread that
\* runs the result loop and the saves: it happens inside the result loop and
\* changes no worker, no cache entry and no saved file; a progress save or
\* the final save happens outside the result loop, when no worker exists and
\* no result is pending, changes no cell, and stores the table as it is.
C21_SingleWriter ==
  [][/\ (sheet' # sheet /\ pc # "start") =>
          /\ pc = "collect"
          /\ pc' = "collect"
          /\ results' = Tail(results)
          /\ UNCHANGED <<wk, cache, rowLog, fileVars>>
     /\ (tempFile' # tempFile \/ outputFile' # outputFile \/ checkpoints' # checkpoints) =>
          /\ pc \in {"checkpoint", "save"}
          /\ UNCHANGED <<sheet, wk, results>>
          /\ wk = EmptyBag
          /\ results = <<>>
          /\ tempFile' \in {tempFile, sheet}
          /\ outputFile' \in {outputFile, sheet}]_vars

C21_Witness ==
  /\ pc = "done"
  /\ Large
  /\ Cardinality(written) = 3
  /\ checkpoints = <<TRUE, TRUE>>
  /\ tempFile = sheet
  /\ outputFile = sheet

(***************************************************************************)
(* Properties of the coordinateCache lock (SpecCache).                     *)
(***************************************************************************)
\* the goroutines between RLock and RUnlock, and between Lock and Unlock
Reading == {g \in Goroutines : calls[g].pc \in {"lookup", "runlock"}}

Writing == {g \in Goroutines : calls[g].pc \in {"address", "district", "province", "unlock"}}

\* C22: while a set is between Lock and Unlock no get is between RLock and
\* RUnlock and no other set is between Lock and Unlock; and what a get read
\* from the map is either nothing or the whole entry of one set for its key.
C22_CacheLockDiscipline ==
  /\ Cardinality(Writing) <= 1
  /\ Writing # {} => Reading = {}
  /\ \A g \in Goroutines :
       calls[g].pc = "runlock" =>
         IF calls[g].ret.found
           THEN <<CallKey(calls[g]), calls[g].ret.loc>> \in puts
           ELSE calls[g].ret.loc = NoLocation

\* two gets are inside their critical sections at once, one having read an
\* entry that a set stored
C22_Witness ==
  /\ Cardinality(Reading) >= 2
  /\ \E g \in Reading : calls[g].pc = "runlock" /\ calls[g].ret.found
  /\ \E g \in Reading : calls[g].pc = "lookup"
  /\ puts # {}

(***************************************************************************)
(* Properties of the cache contents during a run (Spec).                   *)
(***************************************************************************)
\* C23: no step of a run removes a key from the cache or changes the entry
\* that a key already holds.
C23_WriteOncePerKey ==
  [][\A k \in DOMAIN cache : k \in DOMAIN cache' /\ cache'[k] = cache[k]]_vars

\* C23 as amended: the key set of the cache only grows, and the entry of a
\* key is stored or replaced only by the set of a worker that resolved that
\* key upstream itself, with the location that call returned: the last
\* resolver of a key wins, and the entry changes only when the upstream
\* returned a different location to a later call for the same key.
C23_KeysGrowLastPutWins ==
  [][/\ DOMAIN cache \subseteq DOMAIN cache'
     /\ \A k \in DOMAIN cache' :
          (k \notin DOMAIN cache \/ cache'[k] # cache[k]) =>
            \E me \in Workers :
              /\ me.pc = "set"
              /\ cacheKey(me.coords.Lat, me.coords.Lng) = k
              /\ cache'[k] = me.loc
              /\ Requests(me.src) >= 1
              /\ wk' = Goes(me, IdleWorker)]_vars

\* two rows with one key were both resolved upstream, the upstream returned
\* different locations, and the cache holds the location of one of them
C23_Witness ==
  \E p, q \in DataPositions :
    /\ SameKey(p, q)
    /\ IsResolved(p) /\ IsResolved(q)
    /\ Requests(p) >= 1 /\ Requests(q) >= 1
    /\ RowsWrittenFor(p) # {} /\ RowsWrittenFor(q) # {}
    /\ ValuesOf(p) # ValuesOf(q)
    /\ Cardinality(DOMAIN cache) = 2

\* the rows of p's key whose worker stored the location it got upstream
Storers(p) == {q \in DataPositions : SameKey(p, q) /\ rowLog[q].puts >= 1}

\* C24: a row whose cache lookup hit has its Resolved result at once: its
\* worker holds it no longer, made no pacing sleep, no upstream request and
\* no cache set for it, and the values of the result are those that the set
\* of another row with the same key had stored.
C24_HitEmitsImmediately ==
  \A p \in DataPositions :
    rowLog[p].hit =>
      /\ Emitted(p) = 1
      /\ rowLog[p].resolved
      /\ Held(p) = 0
      /\ rowLog[p].slept = 0
      /\ Requests(p) = 0
      /\ rowLog[p].puts = 0
      /\ \E q \in Storers(p) : q # p /\ rowLog[q].loc = rowLog[p].loc

C24_Witness ==
  \E p \in DataPositions :
    /\ rowLog[p].hit
    /\ \E i \in 1..Len(results) : results[i].src = p /\ ~results[i].skipped
    /\ \E q \in Storers(p) : rowLog[q].slept = requestDelay /\ Requests(q) = 1

(***************************************************************************)
(* Further properties of one reverseGeocode call (SpecGeocode).            *)
(***************************************************************************)
\* the kinds of answer to one request
IsRateLimit(out) == ~out.net /\ out.status = 429

IsTransient(out) ==
  \/ out.net
  \/ ~out.net /\ out.status >= 500
  \/ ~out.net /\ out.status = 200 /\ ~out.decodes

IsClientError(out) == ~out.net /\ out.status # 200 /\ out.status # 429 /\ out.status < 500

IsEmptyResult(out) ==
  ~out.net /\ out.status = 200 /\ out.decodes /\ out.body.DisplayName = NoText

\* C25: an answer with a status other than 200, 429 and 5xx, or a decoded
\* body with an empty display name, ends the call on the attempt that got
\* it, whatever the attempt: it is the last request of the call and the call
\* has returned the status error or the no-address error, with no location.
C25_NonTransientNotRetried ==
  \A a \in 1..Len(geoAnswers) :
    (IsClientError(geoAnswers[a]) \/ IsEmptyResult(geoAnswers[a])) =>
      /\ a = Len(geoAnswers)
      /\ geo.requests = a
      /\ geo.returned
      /\ geo.loc = NoLocation
      /\ geo.err = IF IsEmptyResult(geoAnswers[a]) THEN ErrNoAddress
                   ELSE ErrStatus(geoAnswers[a].status)

C25_Witness ==
  /\ Len(geoAnswers) = 2
  /\ IsTransient(geoAnswers[1])
  /\ IsClientError(geoAnswers[2])
  /\ geo.returned
  /\ geo.requests = 2

\* C26: after a network failure, a 5xx or an undecodable body on attempt 1
\* or 2 the call has not returned and goes on to the next request; on
\* attempt 3 the call returns the error of that fault after three requests.
C26_TransientRetriedUntilLast ==
  \A a \in 1..Len(geoAnswers) :
    IsTransient(geoAnswers[a]) =>
      IF a \in {1, 2}
        THEN /\ a = Len(geoAnswers) => ~geo.returned /\ geo.attempt = a /\ geo.requests = a
             /\ a < Len(geoAnswers) => geo.requests >= a + 1
        ELSE /\ a = 3
             /\ geo.returned
             /\ geo.requests = 3
             /\ geo.loc = NoLocation
             /\ geo.err = IF geoAnswers[a].net THEN ErrNetwork
                          ELSE IF geoAnswers[a].status = 200 THEN ErrDecode
                          ELSE ErrStatus(geoAnswers[a].status)

C26_Witness ==
  /\ geoAnswers = <<NetFail, Http(500), Undecodable>>
  /\ geo.returned
  /\ geo.err = ErrDecode
  /\ geo.requests = 3

RECURSIVE SleepsUpTo(_)
SleepsUpTo(a) ==
  IF a = 0 THEN <<>>
  ELSE SleepsUpTo(a - 1)
         \o (IF a > 1 THEN <<2000 * (2 ^ (a - 2))>> ELSE <<>>)
         \o (IF a < 3 /\ a <= Len(geoAnswers) /\ IsRateLimit(geoAnswers[a])
               THEN <<a * 10000>> ELSE <<>>)

\* C28: a 429 on the first attempt is followed by a wait of 10 s and one on
\* the second by a wait of 20 s, each before the standard backoff of the
\* next attempt, so that 12 s and 24 s pass before the next request; a 429
\* on the third attempt adds no wait and the call returns the rate-limit
\* error.
C28_RateLimitPenalty ==
  /\ geo.requests <= 3 => geo.sleeps = SleepsUpTo(geo.requests)
  /\ (Len(geoAnswers) >= 1 /\ IsRateLimit(geoAnswers[1]) /\ geo.requests >= 2) =>
       SumSeq(SubSeq(geo.sleeps, 1, 2)) = 12000
  /\ (Len(geoAnswers) >= 2 /\ IsRateLimit(geoAnswers[2]) /\ geo.requests >= 3) =>
       SumSeq(SubSeq(geo.sleeps, Len(geo.sleeps) - 1, Len(geo.sleeps))) = 24000
  /\ (Len(geoAnswers) = 3 /\ IsRateLimit(geoAnswers[3])) =>
       /\ geo.returned
       /\ geo.err = ErrRateLimit
       /\ geo.sleeps = SleepsUpTo(2) \o <<4000>>

C28_Witness ==
  /\ geoAnswers = <<Http(429), Http(429), Http(429)>>
  /\ geo.sleeps = <<10000, 2000, 20000, 4000>>
  /\ geo.err = ErrRateLimit

(***************************************************************************)
(* The order in which results are applied (Spec).                          *)
(***************************************************************************)
ResultValues(p) == <<rowLog[p].loc.address, rowLog[p].loc.district, rowLog[p].loc.province>>

\* C29: the results waiting on the results channel are for rows different
\* from each other and from every row already written, and the cells written
\* for a result keep that result's values whatever is applied after it; so
\* the table a pool leaves does not depend on the order of arrival.
C29_OrderIndependent ==
  /\ \A i, j \in 1..Len(results) :
       i # j => results[i].rowIndex # results[j].rowIndex
  /\ \A i \in 1..Len(results) : \A w \in written :
       results[i].rowIndex + 1 # w[2]
  /\ \A v, w \in written : v[2] = w[2] => v = w
  /\ \A w \in written : OutputCells(w[2]) = ResultValues(w[1])

\* a result for a lower row is still waiting when a higher row of the same
\* pool has been written
C29_Witness ==
  /\ pc = "collect"
  /\ \E i \in 1..Len(results) : \E w \in PoolWritten :
       /\ ~results[i].skipped
       /\ results[i].rowIndex + 1 < w[2]
       /\ OutputCells(w[2]) = ResultValues(w[1])

(***************************************************************************)
(* Reports of skipped rows (Spec).                                         *)
(***************************************************************************)
IsSkipped(p) == Emitted(p) >= 1 /\ ~rowLog[p].resolved

ReportOf(p) == [row |-> rowLog[p].rowIndex + 1, message |-> rowLog[p].message]

\* C30: at the end of a run, direct or batched, every Skipped row has a
\* report with its skip reason.
C30_EverySkipReported ==
  pc \in Finished =>
    \A p \in DataPositions :
      IsSkipped(p) =>
        \E r \in rowLog[p].reported : r.message = rowLog[p].message

\* C30 as amended: a report is printed only for a Skipped result and is the
\* row number rowIndex+1 of that result with its message; a direct run
\* prints one for every Skipped result; a batched run prints one only when
\* that row number is a multiple of reportEvery or the message tells of a
\* rate limit, and no report at all for the other Skipped rows.
C30_SkipReportedByMode ==
  \A p \in DataPositions :
    /\ rowLog[p].reported \subseteq {ReportOf(p)}
    /\ rowLog[p].reported # {} => IsSkipped(p)
    /\ (pc \in Finished /\ IsSkipped(p)) =>
         (rowLog[p].reported # {} <=>
            \/ ~Large
            \/ (rowLog[p].rowIndex + 1) % reportEvery = 0
            \/ Contains(rowLog[p].message, MsgRateLimit))

\* a batched run has ended with one Skipped row never reported and a
\* rate-limited row reported
C30_Witness ==
  /\ pc \in Finished
  /\ Large
  /\ \E p \in DataPositions : IsSkipped(p) /\ rowLog[p].reported = {}
  /\ \E q \in DataPositions :
       /\ rowLog[q].reported = {ReportOf(q)}
       /\ Contains(rowLog[q].message, MsgRateLimit)
       /\ (rowLog[q].rowIndex + 1) % reportEvery # 0

(***************************************************************************)
(* The count of the final summary (Spec).                                  *)
(***************************************************************************)
\* the rows among ps with a Resolved result whose three values are in the
\* cells of the spreadsheet row they were written to
ResolvedAndWritten(ps) ==
  {p \in ps : /\ IsResolved(p)
              /\ RowsWrittenFor(p) # {}
              /\ \A rowNum \in RowsWrittenFor(p) : OutputCells(rowNum) = ResultValues(p)}

SkippedRows == {p \in DataPositions : IsSkipped(p)}

\* the rows of the batches before the running one, and of that one too
\* once its pool is over
BatchesDone == {p \in DataPositions : PoolOver(p)}

\* C31: the count that Process prints, "Processed %d rows", is the number of
\* data rows with a Resolved result whose three values were written, and
\* with the number of Skipped rows it makes up the number of data rows; in a
\* batched run the count a pool returns is that number for the rows of its
\* batch, and the running total is the sum of the counts of the batches done.
C31_SummaryCount ==
  /\ pc \in Finished =>
       /\ processed = Cardinality(ResolvedAndWritten(DataPositions))
       /\ processed + Cardinality(SkippedRows) = totalRows
  /\ (batched /\ pc \in {"checkpoint", "progressSaved", "progressWarned"}) =>
       /\ batchProcessed = Cardinality(ResolvedAndWritten(PoolRows))
       /\ processed = Cardinality(ResolvedAndWritten(BatchesDone))
       /\ processed = Cardinality(ResolvedAndWritten(BatchesDone \ PoolRows)) + batchProcessed

\* a batched run of two batches has ended with a count that is neither zero
\* nor the number of rows, the second batch having added to the first
C31_Witness ==
  /\ pc = "done"
  /\ batched
  /\ poolRuns = 2
  /\ processed = 2
  /\ batchProcessed = 1
  /\ Cardinality(SkippedRows) = 1

(***************************************************************************)
(* The cache and failed resolutions (Spec).                                *)
(***************************************************************************)
\* the cache key of a well-formed coordinate cell, as a worker derives it
KeyOfText ==
  [t \in CoordTexts |->
     LET coords == parseCoordinates(TrimSpace(t)).coords
     IN  cacheKey(coords.Lat, coords.Lng)]

KeyOf(p) == KeyOfText[CellText(p)]

\* the rows whose upstream call succeeded and that put its result under key
Succeeded(key) ==
  {q \in DataPositions : /\ ~Unparseable(q)
                         /\ KeyOf(q) = key
                         /\ IsResolved(q)
                         /\ Requests(q) >= 1
                         /\ rowLog[q].puts >= 1}

GeocodeFailed(p) == IsSkipped(p) /\ Contains(rowLog[p].message, MsgGeocodeError)

CacheFromSuccesses ==
  /\ \A key \in DOMAIN cache :
       \E q \in Succeeded(key) : cache[key] = rowLog[q].loc
  /\ \A p \in DataPositions :
       /\ IsSkipped(p) => rowLog[p].puts = 0 /\ ~rowLog[p].hit
       /\ GeocodeFailed(p) => Requests(p) >= 1
       /\ rowLog[p].hit => Succeeded(KeyOf(p)) \ {p} # {}
       /\ (IsResolved(p) /\ ~rowLog[p].hit) => p \in Succeeded(KeyOf(p))

\* C32: a step in which a row is skipped leaves the cache as it was; the
\* cache changes only by the put of a row whose upstream call succeeded, to
\* that call's result under that row's key; so every entry is the result of
\* a successful call for its key, a skipped row has put nothing, and a row
\* finds its key in the cache only if another row's call succeeded: after a
\* failed call a row with the same key calls the upstream again.
C32_FailureLeavesCache ==
  [][/\ CacheFromSuccesses'
     /\ \A p \in DataPositions :
          (rowLog'[p].emitted > rowLog[p].emitted /\ ~rowLog'[p].resolved) => cache' = cache
     /\ cache' # cache =>
          \E p \in DataPositions :
            /\ rowLog'[p].puts = rowLog[p].puts + 1
            /\ p \in Succeeded(KeyOf(p))'
            /\ cache' = [k \in DOMAIN cache \cup {KeyOf(p)} |->
                           IF k = KeyOf(p) THEN rowLog'[p].loc ELSE cache[k]]]_vars

\* in a batched run the first row's call failed in the first batch and the
\* third row, with the same key, called the upstream again in the second
\* batch and put its result
C32_Witness ==
  /\ pc \in Finished
  /\ batched
  /\ ~Unparseable(1) /\ ~Unparseable(3)
  /\ KeyOf(1) = KeyOf(3)
  /\ GeocodeFailed(1)
  /\ Requests(1) = maxRetries
  /\ 3 \in Succeeded(KeyOf(3))
  /\ ~rowLog[3].hit
  /\ cache[KeyOf(3)] = rowLog[3].loc

(***************************************************************************)
(* Termination of a run (SpecLive).                                        *)
(***************************************************************************)
Terminated == pc \in {"openFailed", "setupFailed", "done", "saveFailed"}

\* a pool is over: every job was sent and claimed, every worker has left,
\* results is closed and drained, and the result loop has ended
PoolEnded ==
  /\ pc # "collect"
  /\ sendIdx = sendEnd
  /\ jobsClosed
  /\ jobs = <<>>
  /\ wk = EmptyBag
  /\ wg = 0
  /\ resultsClosed
  /\ results = <<>>

\* C33: with every upstream request returning, a run ends, whatever the
\* number of data rows: it stops, and only before its first worker pool can
\* it stop without reaching the final save; and whenever the result loop of
\* a pool is left, all the pool's jobs were sent and claimed, all its
\* workers have exited, results is closed and drained.  So no sender, worker
\* or result loop stays blocked on a channel.
C33_RunTerminates ==
  /\ <>Terminated
  /\ []((poolRuns > 0 /\ pc # "collect") => PoolEnded)
  /\ [](Terminated => (pc \in {"done", "saveFailed"} <=> cols # NoCols))

\* a batched run saved its output after two pools, the last one ended
C33_Witness ==
  /\ pc = "done"
  /\ batched
  /\ poolRuns = 2
  /\ PoolEnded
  /\ \A p \in DataPositions : Emitted(p) = 1

(***************************************************************************)
(* Where a reverseGeocode call returns (SpecGeocode).                      *)
(***************************************************************************)
\* the error an attempt returns for the upstream's answer when it does not
\* go on to another attempt
FaultOf(out) ==
  IF out.net THEN ErrNetwork
  ELSE IF out.status = 429 THEN ErrRateLimit
  ELSE IF out.status # 200 THEN ErrStatus(out.status)
  ELSE IF ~out.decodes THEN ErrDecode
  ELSE IF out.body.DisplayName = NoText THEN ErrNoAddress
  ELSE NoText

\* C34: a call never gets past its third attempt: the attempt counter stays
\* below maxRetries, the error "failed after 3 retries" of the line after
\* the loop is never returned, and a call that returned did so in the
\* attempt of its last request, with the error of that request's answer; so
\* after three failed attempts the error is that of the third answer.
C34_ReturnsInsideAttempt ==
  /\ geo.attempt < maxRetries
  /\ geo.err # ErrExhausted
  /\ geo.requests = Len(geoAnswers)
  /\ geo.returned =>
       /\ geo.requests \in 1..maxRetries
       /\ geo.requests = geo.attempt + 1
       /\ geo.err = FaultOf(geoAnswers[geo.requests])

\* three failed attempts of three different kinds: the error is the third's
C34_Witness ==
  /\ geo.returned
  /\ geoAnswers = <<NetFail, Undecodable, Http(500)>>
  /\ geo.requests = maxRetries
  /\ geo.err = ErrStatus(500)
  /\ geo.err # ErrNetwork /\ geo.err # ErrDecode

====
